---- MODULE Spec2Model ----
(***************************************************************************)
(* Model of the crispy A/B bootloader for the RP2040:                      *)
(*   - crispy-common/src/protocol.rs   flash layout, BootData, protocol    *)
(*   - crispy-bootloader/src/flash.rs  flash service, CRC, BootData I/O    *)
(*   - crispy-bootloader/src/update.rs update-mode state machine           *)
(*   - crispy-bootloader/src/boot.rs   bank selection and boot executor    *)
(*   - crispy-bootloader/src/main.rs   entry dispatcher                    *)
(*   - crispy-common/src/boot_fsm.rs   the pure bank-selection FSM         *)
(*   - crispy-common/src/flash.rs      firmware-side helpers               *)
(*                                                                         *)
(* Scaling.  The flash is modelled cell by cell.  A cell stands for one    *)
(* flash word of CELL_BITS bits; the erased cell is all ones.  The flash   *)
(* geometry keeps the source's divisibility relations (a sector is a whole *)
(* number of pages, a bank a whole number of sectors, a data block a whole *)
(* number of pages, bank A, bank B and the BootData sector are adjacent)   *)
(* but is scaled down so that the banks can be enumerated: the page is 2   *)
(* cells (256 bytes in the source), the sector 2 cells (4096), the bank 4  *)
(* cells (768 KiB), the largest data block 2 cells (1024).  The vector     *)
(* table of an image is its first two cells.  The CRC is the source's      *)
(* reflected bitwise algorithm at width CRC_WIDTH instead of 32.           *)
(***************************************************************************)
EXTENDS Integers, Sequences, FiniteSets, TLC

(***************************************************************************)
(* Bounds of the model (not program constants).                            *)
(***************************************************************************)
\* Number of StartUpdate commands the device accepts in one run.
MaxSessions == 2
\* The environment stops resetting the device once the persisted
\* boot_attempts has reached this value.
MaxBootCount == 4

(***************************************************************************)
(* Flash layout constants (protocol.rs), scaled as described above.        *)
(***************************************************************************)
CELL_BITS == 2
ERASED == 3
FLASH_PAGE_SIZE == 2
FLASH_SECTOR_SIZE == 2
FW_BANK_SIZE == 4
MAX_DATA_BLOCK_SIZE == 2
FLASH_BASE == 16
FW_A_ADDR == FLASH_BASE + FLASH_SECTOR_SIZE
FW_B_ADDR == FW_A_ADDR + FW_BANK_SIZE
BOOT_DATA_ADDR == FW_B_ADDR + FW_BANK_SIZE
BOOT_DATA_MAGIC == 11
ERASED_WORD == 15
RAM_UPDATE_MAGIC == 14
MAX_BOOT_ATTEMPTS == 3
U8_MOD == 256
\* The firmware RAM execution region [__fw_ram_start, __fw_ram_end].
FW_RAM_START == 1
FW_RAM_END == 2
\* CRC parameters: width, reflected polynomial, initial value / final xor.
CRC_WIDTH == 3
CRC_POLY == 6
CRC_INIT == 2^CRC_WIDTH - 1
CRC_CHUNK == 2

Cells == 0 .. ERASED
Banks == {0, 1}
CrcValues == 0 .. CRC_INIT

(***************************************************************************)
(* Bit operations on naturals.                                             *)
(***************************************************************************)
RECURSIVE BitXor(_, _)
BitXor(a, b) ==
    IF a = 0 THEN b
    ELSE IF b = 0 THEN a
    ELSE (((a % 2) + (b % 2)) % 2) + 2 * BitXor(a \div 2, b \div 2)

RECURSIVE BitAnd(_, _)
BitAnd(a, b) ==
    IF a = 0 \/ b = 0 THEN 0
    ELSE ((a % 2) * (b % 2)) + 2 * BitAnd(a \div 2, b \div 2)

Min(a, b) == IF a < b THEN a ELSE b

div_ceil(a, b) == (a + b - 1) \div b

(***************************************************************************)
(* BootData (protocol.rs).                                                 *)
(***************************************************************************)
default_new ==
    [magic |-> BOOT_DATA_MAGIC, active_bank |-> 0, confirmed |-> 0,
     boot_attempts |-> 0, version_a |-> 0, version_b |-> 0,
     crc_a |-> 0, crc_b |-> 0, size_a |-> 0, size_b |-> 0]

\* What BootData::read_from returns on an erased sector: every byte 0xFF.
ErasedBootData ==
    [magic |-> ERASED_WORD, active_bank |-> U8_MOD - 1, confirmed |-> U8_MOD - 1,
     boot_attempts |-> U8_MOD - 1, version_a |-> ERASED_WORD,
     version_b |-> ERASED_WORD, crc_a |-> ERASED_WORD, crc_b |-> ERASED_WORD,
     size_a |-> ERASED_WORD, size_b |-> ERASED_WORD]

is_valid(bd) == bd.magic = BOOT_DATA_MAGIC

(***************************************************************************)
(* State.                                                                  *)
(***************************************************************************)
VARIABLES
    pc,          \* "reset" | "update" | "firmware" | "panic": who runs
    state,       \* UpdateState of run_update_mode
    flash,       \* flash cells of bank A and bank B, by flash offset
    boot_sector, \* the BootData record held by the BootData sector
    ram_flag,    \* the word at RAM_UPDATE_FLAG_ADDR
    running,     \* flash address of the image that was jumped to, 0 if none
    cmd,         \* the last command taken from the transport
    resp,        \* the response sent for it
    flash_ops,   \* flash_erase / flash_program calls of the last step
    sessions,    \* StartUpdate commands accepted so far
    trail,       \* history: the selection passes since the last commit
    committed,   \* history: the last commit no later command has superseded
    selected,    \* history: the record the selection pass of the last step read
    seen,        \* history: what the last step read before it wrote
    fsm,         \* inputs and result of a run of the pure selection FSM
    usb,         \* the USB transport: bytes to come, rx_buf, commands returned
    cobs,        \* a byte sequence with its COBS encodings and their decodings
    rom          \* a flash_erase / flash_program call in progress

\* The variables of the device.
device == <<pc, state, flash, boot_sector, ram_flag, running, cmd, resp,
            flash_ops, sessions, trail, committed, selected, seen>>

\* The variables of the specifications of single functions.
bench == <<fsm, usb, cobs, rom>>

vars == <<device, bench>>

\* The BootData a selection pass was called with, while that pass is the last
\* step taken; NoSelection after any other step.
NoSelection == [none |-> TRUE]

\* History of the last successful FinishUpdate: what it committed, and whether
\* a selection pass of a normal boot has run since.  NoCommit once another
\* StartUpdate, SetActiveBank or WipeAll has been accepted.
NoCommit == [bank |-> 2]

Commit(bank, size, crc, version, booted) ==
    [bank |-> bank, size |-> size, crc |-> crc, version |-> version,
     booted |-> booted]

\* History of the boots that follow a commit: the committed bank and, for each
\* later selection pass, what it returned.  NoTrail once anything else (a
\* command that changes the flash or BootData, a confirmation, a boot with a
\* bank that is not CRC-valid) has intervened.
NoTrail == [bank |-> 2, picks |-> <<>>]

Pick(flash_addr, bd) ==
    [flash_addr |-> flash_addr, active_bank |-> bd.active_bank,
     boot_attempts |-> bd.boot_attempts]

\* What a step read or returned: nothing worth keeping, the active bank and
\* the confirmation of the record a SetActiveBank replaced, the level of the
\* GP2 pin at a reset with the result of check_update_trigger, the value
\* confirm_boot returned, or the bank of the session that FinishUpdate just
\* refused with CrcError or that a reset just ended (kept until the boot that
\* follows).
NothingSeen == [what |-> "nothing"]
SeenRecord(bd) ==
    [what |-> "BootData", active_bank |-> bd.active_bank,
     confirmed |-> bd.confirmed]
SeenTrigger(gp2_is_low, requested) ==
    [what |-> "trigger", gp2_is_low |-> gp2_is_low, requested |-> requested]
SeenReturn(value) == [what |-> "return", value |-> value]
SeenUnverified(bank) == [what |-> "unverified", bank |-> bank]

\* The transport, the COBS codec and the flash routines outside their own
\* specifications.
NoUsb == [none |-> TRUE]
NoCobs == [none |-> TRUE]
NoRom == [none |-> TRUE]

NoFsm == [none |-> TRUE]

\* UpdateState (update.rs)
Idle == [tag |-> "Idle"]

Receiving(bank, bank_addr, expected_size, expected_crc, version, bytes_received) ==
    [tag |-> "Receiving", bank |-> bank, bank_addr |-> bank_addr,
     expected_size |-> expected_size, expected_crc |-> expected_crc,
     version |-> version, bytes_received |-> bytes_received]

\* Response (protocol.rs)
Ack(status) == [type |-> "Ack", status |-> status]

Status(active_bank, version_a, version_b, boot_state) ==
    [type |-> "Status", active_bank |-> active_bank, version_a |-> version_a,
     version_b |-> version_b, state |-> boot_state]

NoResponse == [type |-> "None"]

\* What the model keeps of the last Command (protocol.rs): its kind and the
\* arguments the handlers validate (of the data only the length).
CmdGetStatus == [kind |-> "GetStatus"]
CmdStartUpdate(bank, size, crc32, version) ==
    [kind |-> "StartUpdate", bank |-> bank, size |-> size, crc32 |-> crc32,
     version |-> version]
CmdDataBlock(offset, data) ==
    [kind |-> "DataBlock", offset |-> offset, len |-> Len(data)]
CmdFinishUpdate == [kind |-> "FinishUpdate"]
CmdReboot == [kind |-> "Reboot"]
CmdSetActiveBank(bank) == [kind |-> "SetActiveBank", bank |-> bank]
CmdWipeAll == [kind |-> "WipeAll"]
NoCommand == [kind |-> "None"]

(***************************************************************************)
(* Flash service (crispy-bootloader/src/flash.rs).                         *)
(***************************************************************************)
FlashOffsets ==
    (FW_A_ADDR - FLASH_BASE) .. (BOOT_DATA_ADDR - FLASH_BASE - 1)

addr_to_offset(abs_addr) == abs_addr - FLASH_BASE

EraseOp(offset, size) == [op |-> "erase", offset |-> offset, len |-> size]

ProgramOp(offset, len) == [op |-> "program", offset |-> offset, len |-> len]

\* ROM range erase: every cell of [offset, offset + size) reads erased.
flash_erase(f, offset, size) ==
    [o \in DOMAIN f |->
        IF offset <= o /\ o < offset + size THEN ERASED ELSE f[o]]

\* ROM range program: NOR flash can only clear bits, so the cell becomes the
\* AND of its content and the data.
flash_program(f, offset, data, len) ==
    [o \in DOMAIN f |->
        IF offset <= o /\ o < offset + len
        THEN BitAnd(f[o], data[o - offset + 1])
        ELSE f[o]]

\* Memory-mapped read of n cells at an absolute XIP address.
flash_read(f, abs_addr, n) ==
    [i \in 1 .. n |-> f[addr_to_offset(abs_addr) + i - 1]]

\* One shift step of the reflected CRC.
crc_shift(crc) ==
    IF crc % 2 = 1 THEN BitXor(crc \div 2, CRC_POLY) ELSE crc \div 2

RECURSIVE crc_bits(_, _)
crc_bits(crc, n) == IF n = 0 THEN crc ELSE crc_bits(crc_shift(crc), n - 1)

\* The CRC after one more cell, tabulated for every register value (the crc
\* crate is table-driven as well).
crc_table ==
    [crc \in CrcValues |->
        [cell \in Cells |-> crc_bits(BitXor(crc, cell), CELL_BITS)]]

\* digest.update over a chunk
RECURSIVE crc_update(_, _)
crc_update(crc, chunk) ==
    IF chunk = <<>> THEN crc
    ELSE crc_update(crc_table[crc][Head(chunk)], Tail(chunk))

\* The streaming loop of compute_crc32: chunks of at most CRC_CHUNK cells.
RECURSIVE crc_loop(_, _, _, _)
crc_loop(f, digest, addr, remaining) ==
    IF remaining = 0 THEN digest
    ELSE LET n == Min(remaining, CRC_CHUNK) IN
         crc_loop(f, crc_update(digest, flash_read(f, addr, n)), addr + n,
                  remaining - n)

compute_crc32(f, abs_addr, size) ==
    BitXor(crc_loop(f, CRC_INIT, abs_addr, size), CRC_INIT)

\* The CRC of a byte sequence as a host computes it before StartUpdate.
crc32_of(data) == BitXor(crc_update(CRC_INIT, data), CRC_INIT)

read_boot_data ==
    IF is_valid(boot_sector) THEN boot_sector ELSE default_new

\* Erase the sector, program one page holding the record.
write_boot_data(bd) ==
    /\ boot_sector' = bd
    /\ flash_ops' = <<EraseOp(addr_to_offset(BOOT_DATA_ADDR), FLASH_SECTOR_SIZE),
                      ProgramOp(addr_to_offset(BOOT_DATA_ADDR), FLASH_PAGE_SIZE)>>

(***************************************************************************)
(* Update-mode state machine (crispy-bootloader/src/update.rs).            *)
(***************************************************************************)
\* Faulty variant of Reject: the error answer also drops the session.
RejectAndAbort(status) ==
    /\ resp' = Ack(status)
    /\ flash_ops' = <<>>
    /\ state' = Idle
    /\ UNCHANGED <<flash, boot_sector>>

\* A handler that answers with an error: nothing else changes.
Reject(status) ==
    /\ resp' = Ack(status)
    /\ flash_ops' = <<>>
    /\ UNCHANGED <<state, flash, boot_sector>>

\* Faulty variant of handle_get_status: the sector is reported as read, with no
\* default for a record without valid magic.
handle_get_status_raw_record ==
    LET bd == boot_sector
        boot_state == IF state.tag = "Idle" THEN "UpdateMode" ELSE "Receiving"
    IN  /\ resp' = Status(bd.active_bank, bd.version_a, bd.version_b, boot_state)
        /\ flash_ops' = <<>>
        /\ UNCHANGED <<state, flash, boot_sector>>

\* Faulty variant of handle_get_status: the two versions are exchanged.
handle_get_status_swapped ==
    LET bd == read_boot_data
        boot_state == IF state.tag = "Idle" THEN "UpdateMode" ELSE "Receiving"
    IN  /\ resp' = Status(bd.active_bank, bd.version_b, bd.version_a, boot_state)
        /\ flash_ops' = <<>>
        /\ UNCHANGED <<state, flash, boot_sector>>

handle_get_status ==
    LET bd == read_boot_data
        boot_state == IF state.tag = "Idle" THEN "UpdateMode" ELSE "Receiving"
    IN  /\ resp' = Status(bd.active_bank, bd.version_a, bd.version_b, boot_state)
        /\ flash_ops' = <<>>
        /\ UNCHANGED <<state, flash, boot_sector>>

\* Faulty variant of handle_start_update: a session in progress is replaced.
handle_start_update_restarts(bank, size, crc32, version) ==
    IF bank > 1 THEN Reject("BankInvalid")
    ELSE IF size = 0 \/ size > FW_BANK_SIZE THEN Reject("BankInvalid")
    ELSE LET bank_addr == IF bank = 0 THEN FW_A_ADDR ELSE FW_B_ADDR
             erase_size == div_ceil(size, FLASH_SECTOR_SIZE) * FLASH_SECTOR_SIZE
             offset == addr_to_offset(bank_addr)
         IN  /\ flash' = flash_erase(flash, offset, erase_size)
             /\ flash_ops' = <<EraseOp(offset, erase_size)>>
             /\ resp' = Ack("Ok")
             /\ state' = Receiving(bank, bank_addr, size, crc32, version, 0)
             /\ UNCHANGED boot_sector

\* Faulty variant of handle_start_update: the bank number is validated before
\* the state.
handle_start_update_bank_first(bank, size, crc32, version) ==
    IF bank > 1 THEN Reject("BankInvalid")
    ELSE IF state.tag # "Idle" THEN Reject("BadState")
    ELSE IF size = 0 \/ size > FW_BANK_SIZE THEN Reject("BankInvalid")
    ELSE LET bank_addr == IF bank = 0 THEN FW_A_ADDR ELSE FW_B_ADDR
             erase_size == div_ceil(size, FLASH_SECTOR_SIZE) * FLASH_SECTOR_SIZE
             offset == addr_to_offset(bank_addr)
         IN  /\ flash' = flash_erase(flash, offset, erase_size)
             /\ flash_ops' = <<EraseOp(offset, erase_size)>>
             /\ resp' = Ack("Ok")
             /\ state' = Receiving(bank, bank_addr, size, crc32, version, 0)
             /\ UNCHANGED boot_sector

\* Faulty variant of handle_start_update: the whole bank is erased.
handle_start_update_erases_bank(bank, size, crc32, version) ==
    IF state.tag # "Idle" THEN Reject("BadState")
    ELSE IF bank > 1 THEN Reject("BankInvalid")
    ELSE IF size = 0 \/ size > FW_BANK_SIZE THEN Reject("BankInvalid")
    ELSE LET bank_addr == IF bank = 0 THEN FW_A_ADDR ELSE FW_B_ADDR
             erase_size == FW_BANK_SIZE
             offset == addr_to_offset(bank_addr)
         IN  /\ flash' = flash_erase(flash, offset, erase_size)
             /\ flash_ops' = <<EraseOp(offset, erase_size)>>
             /\ resp' = Ack("Ok")
             /\ state' = Receiving(bank, bank_addr, size, crc32, version, 0)
             /\ UNCHANGED boot_sector

handle_start_update(bank, size, crc32, version) ==
    IF state.tag # "Idle" THEN Reject("BadState")
    ELSE IF bank > 1 THEN Reject("BankInvalid")
    ELSE IF size = 0 \/ size > FW_BANK_SIZE THEN Reject("BankInvalid")
    ELSE LET bank_addr == IF bank = 0 THEN FW_A_ADDR ELSE FW_B_ADDR
             erase_size == div_ceil(size, FLASH_SECTOR_SIZE) * FLASH_SECTOR_SIZE
             offset == addr_to_offset(bank_addr)
         IN  /\ flash' = flash_erase(flash, offset, erase_size)
             /\ flash_ops' = <<EraseOp(offset, erase_size)>>
             /\ resp' = Ack("Ok")
             /\ state' = Receiving(bank, bank_addr, size, crc32, version, 0)
             /\ UNCHANGED boot_sector

\* page_buf: the data followed by 0xFF up to the buffer's length.
page_buf(data) ==
    [i \in 1 .. (MAX_DATA_BLOCK_SIZE + FLASH_PAGE_SIZE) |->
        IF i <= Len(data) THEN data[i] ELSE ERASED]

\* The flash programming and bookkeeping of an accepted DataBlock.
program_block(data) ==
    LET padded_len == div_ceil(Len(data), FLASH_PAGE_SIZE) * FLASH_PAGE_SIZE
        flash_offset == addr_to_offset(state.bank_addr) + state.bytes_received
    IN  /\ flash' = flash_program(flash, flash_offset, page_buf(data), padded_len)
        /\ flash_ops' = <<ProgramOp(flash_offset, padded_len)>>
        /\ state' = [state EXCEPT !.bytes_received = @ + Len(data)]
        /\ resp' = Ack("Ok")
        /\ UNCHANGED boot_sector

\* Faulty variant of handle_data_block: the data may run past expected_size.
handle_data_block_past_size(offset, data) ==
    IF state.tag # "Receiving" THEN Reject("BadState")
    ELSE IF offset # state.bytes_received THEN Reject("BadCommand")
    ELSE program_block(data)

\* Faulty variant of handle_data_block: the offset is not compared with
\* bytes_received.
handle_data_block_any_offset(offset, data) ==
    IF state.tag # "Receiving" THEN Reject("BadState")
    ELSE IF state.bytes_received + Len(data) > state.expected_size
         THEN Reject("BadCommand")
    ELSE program_block(data)

handle_data_block(offset, data) ==
    IF state.tag # "Receiving" THEN Reject("BadState")
    ELSE IF offset # state.bytes_received THEN Reject("BadCommand")
    ELSE IF state.bytes_received + Len(data) > state.expected_size
         THEN Reject("BadCommand")
    ELSE program_block(data)

\* Faulty variant of finish_boot_data: boot_attempts is not cleared.
finish_boot_data_keeps_attempts(st, bd) ==
    LET bd0 == [bd EXCEPT !.active_bank = st.bank, !.confirmed = 0] IN
    IF st.bank = 0
    THEN [bd0 EXCEPT !.version_a = st.version, !.crc_a = st.expected_crc,
                     !.size_a = st.expected_size]
    ELSE [bd0 EXCEPT !.version_b = st.version, !.crc_b = st.expected_crc,
                     !.size_b = st.expected_size]

\* The record handle_finish_update builds from the record bd it read and the
\* session st.
finish_boot_data(st, bd) ==
    LET bd0 == [bd EXCEPT !.active_bank = st.bank,
                          !.confirmed = 0,
                          !.boot_attempts = 0]
    IN  IF st.bank = 0
        THEN [bd0 EXCEPT !.version_a = st.version,
                         !.crc_a = st.expected_crc,
                         !.size_a = st.expected_size]
        ELSE [bd0 EXCEPT !.version_b = st.version,
                         !.crc_b = st.expected_crc,
                         !.size_b = st.expected_size]

\* Faulty variant of handle_finish_update: the CRC of the bank is not verified.
handle_finish_update_unverified ==
    IF state.tag # "Receiving" THEN Reject("BadState")
    ELSE IF state.bytes_received # state.expected_size THEN Reject("BadCommand")
    ELSE /\ write_boot_data(finish_boot_data(state, read_boot_data))
         /\ resp' = Ack("Ok")
         /\ state' = Idle
         /\ UNCHANGED flash

\* Faulty variant of handle_finish_update: a FinishUpdate before the session is
\* complete is answered and the session dropped.
handle_finish_update_drops_short ==
    IF state.tag # "Receiving" THEN Reject("BadState")
    ELSE IF state.bytes_received # state.expected_size
         THEN /\ resp' = Ack("BadCommand")
              /\ state' = Idle
              /\ flash_ops' = <<>>
              /\ UNCHANGED <<flash, boot_sector>>
    ELSE IF compute_crc32(flash, state.bank_addr, state.expected_size)
                # state.expected_crc
         THEN /\ resp' = Ack("CrcError")
              /\ state' = Idle
              /\ flash_ops' = <<>>
              /\ UNCHANGED <<flash, boot_sector>>
    ELSE /\ write_boot_data(finish_boot_data(state, read_boot_data))
         /\ resp' = Ack("Ok")
         /\ state' = Idle
         /\ UNCHANGED flash

\* Faulty variant of handle_finish_update: a CRC mismatch is answered but the
\* session is kept.
handle_finish_update_keeps_session ==
    IF state.tag # "Receiving" THEN Reject("BadState")
    ELSE IF state.bytes_received # state.expected_size THEN Reject("BadCommand")
    ELSE IF compute_crc32(flash, state.bank_addr, state.expected_size)
                # state.expected_crc
         THEN Reject("CrcError")
    ELSE /\ write_boot_data(finish_boot_data(state, read_boot_data))
         /\ resp' = Ack("Ok")
         /\ state' = Idle
         /\ UNCHANGED flash

handle_finish_update ==
    IF state.tag # "Receiving" THEN Reject("BadState")
    ELSE IF state.bytes_received # state.expected_size THEN Reject("BadCommand")
    ELSE IF compute_crc32(flash, state.bank_addr, state.expected_size)
                # state.expected_crc
         THEN /\ resp' = Ack("CrcError")
              /\ state' = Idle
              /\ flash_ops' = <<>>
              /\ UNCHANGED <<flash, boot_sector>>
    ELSE /\ write_boot_data(finish_boot_data(state, read_boot_data))
         /\ resp' = Ack("Ok")
         /\ state' = Idle
         /\ UNCHANGED flash

\* Faulty variant of handle_set_active_bank: the CRC of the target bank is not
\* verified.
handle_set_active_bank_unverified(bank) ==
    IF state.tag # "Idle" THEN Reject("BadState")
    ELSE IF bank > 1 THEN Reject("BankInvalid")
    ELSE LET bd == read_boot_data
             size == IF bank = 0 THEN bd.size_a ELSE bd.size_b
         IN  IF size = 0 THEN Reject("BankInvalid")
             ELSE /\ write_boot_data([bd EXCEPT !.active_bank = bank,
                                                !.confirmed = 0,
                                                !.boot_attempts = 0])
                  /\ resp' = Ack("Ok")
                  /\ UNCHANGED <<state, flash>>

\* Faulty variant of handle_set_active_bank: selecting the bank that is already
\* active keeps its confirmation.
handle_set_active_bank_keeps_confirmed(bank) ==
    IF state.tag # "Idle" THEN Reject("BadState")
    ELSE IF bank > 1 THEN Reject("BankInvalid")
    ELSE LET bd == read_boot_data
             size == IF bank = 0 THEN bd.size_a ELSE bd.size_b
             crc == IF bank = 0 THEN bd.crc_a ELSE bd.crc_b
             bank_addr == IF bank = 0 THEN FW_A_ADDR ELSE FW_B_ADDR
         IN  IF size = 0 THEN Reject("BankInvalid")
             ELSE IF compute_crc32(flash, bank_addr, size) # crc
                  THEN Reject("CrcError")
             ELSE /\ write_boot_data(
                        [bd EXCEPT !.active_bank = bank,
                                   !.confirmed =
                                        IF bd.active_bank = bank THEN @ ELSE 0,
                                   !.boot_attempts = 0])
                  /\ resp' = Ack("Ok")
                  /\ UNCHANGED <<state, flash>>

handle_set_active_bank(bank) ==
    IF state.tag # "Idle" THEN Reject("BadState")
    ELSE IF bank > 1 THEN Reject("BankInvalid")
    ELSE LET bd == read_boot_data
             size == IF bank = 0 THEN bd.size_a ELSE bd.size_b
             crc == IF bank = 0 THEN bd.crc_a ELSE bd.crc_b
             bank_addr == IF bank = 0 THEN FW_A_ADDR ELSE FW_B_ADDR
         IN  IF size = 0 THEN Reject("BankInvalid")
             ELSE IF compute_crc32(flash, bank_addr, size) # crc
                  THEN Reject("CrcError")
             ELSE /\ write_boot_data([bd EXCEPT !.active_bank = bank,
                                                !.confirmed = 0,
                                                !.boot_attempts = 0])
                  /\ resp' = Ack("Ok")
                  /\ UNCHANGED <<state, flash>>

\* Faulty variant of handle_wipe_all: the record written keeps the sizes of the
\* banks.
handle_wipe_all_keeps_sizes ==
    IF state.tag # "Idle" THEN Reject("BadState")
    ELSE /\ write_boot_data([default_new EXCEPT
                                !.size_a = read_boot_data.size_a,
                                !.size_b = read_boot_data.size_b])
         /\ resp' = Ack("Ok")
         /\ UNCHANGED <<state, flash>>

handle_wipe_all ==
    IF state.tag # "Idle" THEN Reject("BadState")
    ELSE /\ write_boot_data(default_new)
         /\ resp' = Ack("Ok")
         /\ UNCHANGED <<state, flash>>

\* Faulty variant of handle_reboot: the system is reset without an answer.
handle_reboot_silent ==
    /\ resp' = NoResponse
    /\ flash_ops' = <<>>
    /\ pc' = "reset"
    /\ state' = Idle
    /\ UNCHANGED <<flash, boot_sector>>

\* handle_reboot: Ack(Ok), then SCB::sys_reset.
handle_reboot ==
    /\ resp' = Ack("Ok")
    /\ flash_ops' = <<>>
    /\ pc' = "reset"
    /\ state' = Idle
    /\ UNCHANGED <<flash, boot_sector>>

(***************************************************************************)
(* Bank selection and boot executor (crispy-bootloader/src/boot.rs).       *)
(***************************************************************************)
is_in_ram(addr) == FW_RAM_START <= addr /\ addr <= FW_RAM_END

\* VectorTable::read_from: the first two words at addr.
read_from(f, addr) ==
    [initial_sp |-> flash_read(f, addr, 2)[1],
     reset_vector |-> flash_read(f, addr, 2)[2]]

is_valid_for_ram_execution(vt) ==
    is_in_ram(vt.initial_sp) /\ is_in_ram(vt.reset_vector)

validate_bank_with_crc(f, addr, crc, size) ==
    IF size = 0 THEN FALSE
    ELSE IF ~is_valid_for_ram_execution(read_from(f, addr)) THEN FALSE
    ELSE compute_crc32(f, addr, size) = crc

\* validate_bank(..).is_some()
validate_bank(f, flash_addr) ==
    is_valid_for_ram_execution(read_from(f, flash_addr))

\* Faulty variant of toggle_bank: the next bank number, whatever it is.
toggle_bank_next(bank) == bank + 1

toggle_bank(bank) == IF bank = 0 THEN 1 ELSE 0

bank_addresses(bd) ==
    IF bd.active_bank = 0 THEN <<FW_A_ADDR, FW_B_ADDR>>
    ELSE <<FW_B_ADDR, FW_A_ADDR>>

\* <<crc, size>> of a bank
bank_metadata(bd, bank) ==
    IF bank = 0 THEN <<bd.crc_a, bd.size_a>> ELSE <<bd.crc_b, bd.size_b>>

\* Faulty variant of rollback: the threshold is compared with > instead of >=.
rollback_late(bd) ==
    IF bd.boot_attempts > MAX_BOOT_ATTEMPTS /\ bd.confirmed = 0
    THEN [bd EXCEPT !.active_bank = toggle_bank(@),
                    !.boot_attempts = 0,
                    !.confirmed = 0]
    ELSE bd

\* The rollback pre-step of select_boot_bank.
rollback(bd) ==
    IF bd.boot_attempts >= MAX_BOOT_ATTEMPTS /\ bd.confirmed = 0
    THEN [bd EXCEPT !.active_bank = toggle_bank(@),
                    !.boot_attempts = 0,
                    !.confirmed = 0]
    ELSE bd

\* The four validations select_boot_bank may evaluate, on the record after
\* the rollback pre-step.
validations(bd, f) ==
    LET primary_addr == bank_addresses(bd)[1]
        fallback_addr == bank_addresses(bd)[2]
        primary_meta == bank_metadata(bd, bd.active_bank)
        fallback_meta == bank_metadata(bd, toggle_bank(bd.active_bank))
    IN  [primary_crc |-> validate_bank_with_crc(f, primary_addr, primary_meta[1],
                                                primary_meta[2]),
         fallback_crc |-> validate_bank_with_crc(f, fallback_addr, fallback_meta[1],
                                                 fallback_meta[2]),
         primary_basic |-> validate_bank(f, primary_addr),
         fallback_basic |-> validate_bank(f, fallback_addr)]

\* Faulty variant of select_cascade: the primary's basic validation is tried
\* before the fallback's CRC validation.
select_cascade_basic_first(bd, v) ==
    LET primary_addr == bank_addresses(bd)[1]
        fallback_addr == bank_addresses(bd)[2]
        primary ==
            [flash_addr |-> primary_addr,
             bd |-> [bd EXCEPT !.boot_attempts = (@ + 1) % U8_MOD],
             overflow |-> bd.boot_attempts + 1 >= U8_MOD]
    IN  IF v.primary_crc \/ v.primary_basic
        THEN primary
        ELSE IF v.fallback_crc
        THEN [flash_addr |-> fallback_addr,
              bd |-> [bd EXCEPT !.active_bank = toggle_bank(@),
                                !.boot_attempts = 1,
                                !.confirmed = 0],
              overflow |-> FALSE]
        ELSE IF v.fallback_basic
        THEN [flash_addr |-> fallback_addr,
              bd |-> [bd EXCEPT !.active_bank = toggle_bank(@),
                                !.boot_attempts = 1],
              overflow |-> FALSE]
        ELSE primary

\* The strategy cascade of select_boot_bank on the record after the rollback
\* pre-step.  `overflow` tells that the u8 addition boot_attempts += 1 on the
\* returned path overflowed; bd then holds the wrapped value.
select_cascade(bd, v) ==
    LET primary_addr == bank_addresses(bd)[1]
        fallback_addr == bank_addresses(bd)[2]
        primary ==
            [flash_addr |-> primary_addr,
             bd |-> [bd EXCEPT !.boot_attempts = (@ + 1) % U8_MOD],
             overflow |-> bd.boot_attempts + 1 >= U8_MOD]
    IN  IF v.primary_crc
        THEN primary
        ELSE IF v.fallback_crc
        THEN [flash_addr |-> fallback_addr,
              bd |-> [bd EXCEPT !.active_bank = toggle_bank(@),
                                !.boot_attempts = 1,
                                !.confirmed = 0],
              overflow |-> FALSE]
        ELSE IF v.primary_basic
        THEN primary
        ELSE IF v.fallback_basic
        THEN [flash_addr |-> fallback_addr,
              bd |-> [bd EXCEPT !.active_bank = toggle_bank(@),
                                !.boot_attempts = 1],
              overflow |-> FALSE]
        ELSE primary

select_boot_bank(bd, f) ==
    select_cascade(rollback(bd), validations(rollback(bd), f))

\* Faulty variant of check_update_trigger: only the pin is looked at.
check_update_trigger_pin_only(gp2_is_low) ==
    gp2_is_low

check_update_trigger(gp2_is_low) ==
    gp2_is_low \/ ram_flag = RAM_UPDATE_MAGIC

\* enter_update_mode / run_update_mode: the loop starts in Idle.
enter_update_mode ==
    /\ pc' = "update"
    /\ state' = Idle
    /\ running' = 0

\* load_and_jump: control passes to the image copied from flash_addr.
load_and_jump(flash_addr) ==
    /\ pc' = "firmware"
    /\ state' = Idle
    /\ running' = flash_addr

\* Faulty variant of run_normal_boot: the selected bank is jumped to without
\* the final validate_bank.
run_normal_boot_unvalidated(overflow_checks) ==
    LET bd == read_boot_data IN
    IF is_valid(bd) /\ bd.size_a = 0 /\ bd.size_b = 0
    THEN /\ enter_update_mode
         /\ flash_ops' = <<>>
         /\ UNCHANGED boot_sector
    ELSE LET sel == select_boot_bank(bd, flash) IN
         IF sel.overflow /\ overflow_checks
         THEN /\ pc' = "panic"
              /\ flash_ops' = <<>>
              /\ UNCHANGED <<state, running, boot_sector>>
         ELSE /\ write_boot_data(sel.bd)
              /\ load_and_jump(sel.flash_addr)

\* Faulty variant of run_normal_boot: a record without any firmware goes
\* through bank selection like any other.
run_normal_boot_selects_empty(overflow_checks) ==
    LET bd == read_boot_data
        sel == select_boot_bank(bd, flash)
    IN  IF sel.overflow /\ overflow_checks
        THEN /\ pc' = "panic"
             /\ flash_ops' = <<>>
             /\ UNCHANGED <<state, running, boot_sector>>
        ELSE /\ write_boot_data(sel.bd)
             /\ IF ~validate_bank(flash, sel.flash_addr)
                THEN enter_update_mode
                ELSE load_and_jump(sel.flash_addr)

\* run_normal_boot.  overflow_checks is the build profile: with it an
\* overflowing boot_attempts += 1 panics, without it the addition wraps.
run_normal_boot(overflow_checks) ==
    LET bd == read_boot_data IN
    IF is_valid(bd) /\ bd.size_a = 0 /\ bd.size_b = 0
    THEN /\ enter_update_mode
         /\ flash_ops' = <<>>
         /\ UNCHANGED boot_sector
    ELSE LET sel == select_boot_bank(bd, flash) IN
         IF sel.overflow /\ overflow_checks
         THEN /\ pc' = "panic"
              /\ flash_ops' = <<>>
              /\ UNCHANGED <<state, running, boot_sector>>
         ELSE /\ write_boot_data(sel.bd)
              /\ IF ~validate_bank(flash, sel.flash_addr)
                 THEN enter_update_mode
                 ELSE load_and_jump(sel.flash_addr)

(***************************************************************************)
(* Entry dispatcher (crispy-bootloader/src/main.rs).                       *)
(***************************************************************************)
main(gp2_is_low, overflow_checks) ==
    /\ pc = "reset"
    /\ ram_flag' = 0
    /\ cmd' = NoCommand
    /\ resp' = NoResponse
    /\ IF check_update_trigger(gp2_is_low)
       THEN /\ enter_update_mode
            /\ flash_ops' = <<>>
            /\ UNCHANGED boot_sector
       ELSE run_normal_boot(overflow_checks)
    /\ UNCHANGED <<flash, sessions>>

(***************************************************************************)
(* Firmware-side helpers (crispy-common/src/flash.rs).                     *)
(***************************************************************************)
\* Faulty variant of confirm_boot: the record written is a fresh one.
confirm_boot_fresh_record ==
    /\ pc = "firmware"
    /\ IF ~is_valid(boot_sector)
       THEN /\ seen' = SeenReturn(FALSE)
            /\ flash_ops' = <<>>
            /\ UNCHANGED boot_sector
       ELSE IF boot_sector.confirmed = 1
       THEN /\ seen' = SeenReturn(TRUE)
            /\ flash_ops' = <<>>
            /\ UNCHANGED boot_sector
       ELSE /\ write_boot_data([default_new EXCEPT !.confirmed = 1,
                                                   !.boot_attempts = 0])
            /\ seen' = SeenReturn(TRUE)
    /\ UNCHANGED <<pc, state, flash, ram_flag, running, cmd, resp, sessions>>

\* confirm_boot reads the sector raw; it writes only a valid, unconfirmed
\* record.  Its return value is kept in seen.
confirm_boot ==
    /\ pc = "firmware"
    /\ IF ~is_valid(boot_sector)
       THEN /\ seen' = SeenReturn(FALSE)
            /\ flash_ops' = <<>>
            /\ UNCHANGED boot_sector
       ELSE IF boot_sector.confirmed = 1
       THEN /\ seen' = SeenReturn(TRUE)
            /\ flash_ops' = <<>>
            /\ UNCHANGED boot_sector
       ELSE /\ write_boot_data([boot_sector EXCEPT !.confirmed = 1,
                                                   !.boot_attempts = 0])
            /\ seen' = SeenReturn(TRUE)
    /\ UNCHANGED <<pc, state, flash, ram_flag, running, cmd, resp, sessions>>

\* reboot: SCB::sys_reset
reboot ==
    /\ pc = "firmware"
    /\ pc' = "reset"
    /\ running' = 0
    /\ flash_ops' = <<>>
    /\ UNCHANGED <<state, flash, boot_sector, ram_flag, cmd, resp, sessions>>

reboot_to_bootloader ==
    /\ pc = "firmware"
    /\ ram_flag' = RAM_UPDATE_MAGIC
    /\ pc' = "reset"
    /\ running' = 0
    /\ flash_ops' = <<>>
    /\ UNCHANGED <<state, flash, boot_sector, cmd, resp, sessions>>

(***************************************************************************)
(* The pure bank-selection FSM (crispy-common/src/boot_fsm.rs).            *)
(***************************************************************************)
BankInfo(addr, crc, size, bank_id) ==
    [addr |-> addr, crc |-> crc, size |-> size, bank_id |-> bank_id]

BankValidation(crc_valid, basic_valid) ==
    [crc_valid |-> crc_valid, basic_valid |-> basic_valid]

\* BankPair::new(active_bank, fw_a_addr, fw_b_addr, bd)
BankPair_new(active_bank, fw_a_addr, fw_b_addr, bd) ==
    LET fallback_bank == toggle_bank(active_bank)
        primary_addr == IF active_bank = 0 THEN fw_a_addr ELSE fw_b_addr
        fallback_addr == IF active_bank = 0 THEN fw_b_addr ELSE fw_a_addr
        pm == bank_metadata(bd, active_bank)
        fm == bank_metadata(bd, fallback_bank)
    IN  [primary |-> BankInfo(primary_addr, pm[1], pm[2], active_bank),
         primary_validation |-> BankValidation(FALSE, FALSE),
         fallback |-> BankInfo(fallback_addr, fm[1], fm[2], fallback_bank),
         fallback_validation |-> BankValidation(FALSE, FALSE)]

with_validation(banks, primary_validation, fallback_validation) ==
    [banks EXCEPT !.primary_validation = primary_validation,
                  !.fallback_validation = fallback_validation]

BootDecision(flash_addr, active_bank, boot_attempts, confirmed) ==
    [flash_addr |-> flash_addr, active_bank |-> active_bank,
     boot_attempts |-> boot_attempts, confirmed |-> confirmed]

apply_to(decision, bd) ==
    [bd EXCEPT !.active_bank = decision.active_bank,
               !.boot_attempts = decision.boot_attempts,
               !.confirmed = decision.confirmed]

BOOT_STRATEGIES ==
    <<"PrimaryWithCrc", "FallbackWithCrc", "PrimaryBasic", "FallbackBasic">>

NoDecision == [none |-> TRUE]

needs_rollback(bd) ==
    bd.boot_attempts >= MAX_BOOT_ATTEMPTS /\ bd.confirmed = 0

\* Some(decision) or None; u8 additions wrap.
try_boot_strategy(strategy, banks, current_attempts) ==
    IF strategy = "PrimaryWithCrc" /\ banks.primary_validation.crc_valid
    THEN BootDecision(banks.primary.addr, banks.primary.bank_id,
                      (current_attempts + 1) % U8_MOD, 0)
    ELSE IF strategy = "FallbackWithCrc" /\ banks.fallback_validation.crc_valid
    THEN BootDecision(banks.fallback.addr, banks.fallback.bank_id, 1, 0)
    ELSE IF strategy = "PrimaryBasic" /\ banks.primary_validation.basic_valid
    THEN BootDecision(banks.primary.addr, banks.primary.bank_id,
                      (current_attempts + 1) % U8_MOD, 0)
    ELSE IF strategy = "FallbackBasic" /\ banks.fallback_validation.basic_valid
    THEN BootDecision(banks.fallback.addr, banks.fallback.bank_id, 1, 0)
    ELSE NoDecision

\* BOOT_STRATEGIES.iter().find_map(..) from the i-th strategy on
RECURSIVE find_map(_, _, _)
find_map(i, banks, boot_attempts) ==
    IF i > Len(BOOT_STRATEGIES) THEN NoDecision
    ELSE LET d == try_boot_strategy(BOOT_STRATEGIES[i], banks, boot_attempts) IN
         IF d # NoDecision THEN d ELSE find_map(i + 1, banks, boot_attempts)

select_boot_bank_fsm(bd, banks) ==
    LET boot_attempts == IF needs_rollback(bd) THEN 0 ELSE bd.boot_attempts
        found == find_map(1, banks, boot_attempts)
    IN  IF found # NoDecision THEN found
        ELSE BootDecision(banks.primary.addr, banks.primary.bank_id,
                          (boot_attempts + 1) % U8_MOD, 0)

\* The argument of unwrap_or is evaluated before find_map's result is looked
\* at, and a matching primary strategy evaluates the same sum: the u8 addition
\* boot_attempts + 1 overflows whenever the count after rollback is 255.
fsm_overflow(bd) ==
    (IF needs_rollback(bd) THEN 0 ELSE bd.boot_attempts) + 1 >= U8_MOD


(***************************************************************************)
(* The host's commands and the environment.                                *)
(***************************************************************************)
\* The host uploads the images of a catalogue of releases.  It announces a
\* release with its CRC and version but may declare any size for it; during
\* the session it sends slices of that image, in any order and at any offset.
HostReleases ==
    {[image |-> <<1, 2, 0>>, crc32 |-> crc32_of(<<1, 2, 0>>), version |-> 1],
     [image |-> <<0, 2, 0, 1>>, crc32 |-> crc32_of(<<0, 2, 0, 1>>), version |-> 2]}
HostBanks == 0 .. 2
HostSizes == {0} \cup (2 .. (FW_BANK_SIZE + 1))
HostOffsets == 0 .. FW_BANK_SIZE

\* The slice of an image that starts at offset and has at most n cells.
Slice(img, offset, n) == SubSeq(img, offset + 1, Min(offset + n, Len(img)))

\* What a reset leaves of the session it ends.
SeenAtReset ==
    IF state.tag = "Receiving" THEN SeenUnverified(state.bank)
    ELSE IF seen.what = "unverified" THEN seen
    ELSE NothingSeen

\* One iteration of run_update_mode's loop that received command c.  The
\* history ends when the command changed the flash or BootData.
InUpdate(c) ==
    /\ pc = "update"
    /\ cmd' = c
    /\ trail' = IF c.kind = "FinishUpdate" /\ resp' = Ack("Ok")
                THEN [bank |-> state.bank, picks |-> <<>>]
                ELSE IF flash' # flash \/ boot_sector' # boot_sector
                THEN NoTrail
                ELSE trail
    /\ committed' =
            IF c.kind = "FinishUpdate" /\ resp' = Ack("Ok")
            THEN Commit(state.bank, state.expected_size, state.expected_crc,
                        state.version, FALSE)
            ELSE IF c.kind \in {"StartUpdate", "SetActiveBank", "WipeAll"}
                    /\ resp' = Ack("Ok")
            THEN NoCommit
            ELSE committed
    /\ selected' = NoSelection
    /\ seen' = IF c.kind = "SetActiveBank" /\ resp' = Ack("Ok")
               THEN SeenRecord(read_boot_data)
               ELSE IF c.kind = "FinishUpdate" /\ resp' = Ack("CrcError")
               THEN SeenUnverified(state.bank)
               ELSE IF c.kind = "Reboot"
               THEN SeenAtReset
               ELSE NothingSeen
    /\ UNCHANGED <<ram_flag, running, bench>>

GetStatus ==
    /\ handle_get_status
    /\ InUpdate(CmdGetStatus)
    /\ UNCHANGED <<pc, sessions>>

StartUpdate ==
    /\ sessions < MaxSessions
    /\ \E bank \in HostBanks, size \in HostSizes, rel \in HostReleases :
            /\ handle_start_update(bank, size, rel.crc32, rel.version)
            /\ InUpdate(CmdStartUpdate(bank, size, rel.crc32, rel.version))
    /\ sessions' = IF resp' = Ack("Ok") THEN sessions + 1 ELSE sessions
    /\ UNCHANGED pc

DataBlock ==
    /\ \E rel \in HostReleases, offset \in HostOffsets,
          n \in 0 .. MAX_DATA_BLOCK_SIZE :
            /\ state.tag = "Receiving" => rel.crc32 = state.expected_crc
            /\ handle_data_block(offset, Slice(rel.image, offset, n))
            /\ InUpdate(CmdDataBlock(offset, Slice(rel.image, offset, n)))
    /\ UNCHANGED <<pc, sessions>>

FinishUpdate ==
    /\ handle_finish_update
    /\ InUpdate(CmdFinishUpdate)
    /\ UNCHANGED <<pc, sessions>>

SetActiveBank ==
    /\ \E bank \in HostBanks :
            /\ handle_set_active_bank(bank)
            /\ InUpdate(CmdSetActiveBank(bank))
    /\ UNCHANGED <<pc, sessions>>

WipeAll ==
    /\ handle_wipe_all
    /\ InUpdate(CmdWipeAll)
    /\ UNCHANGED <<pc, sessions>>

Reboot ==
    /\ handle_reboot
    /\ InUpdate(CmdReboot)
    /\ UNCHANGED sessions

\* Both banks pass validate_bank_with_crc against the persisted record.
BothCrcValid ==
    LET bd == read_boot_data IN
    /\ validate_bank_with_crc(flash, FW_A_ADDR, bd.crc_a, bd.size_a)
    /\ validate_bank_with_crc(flash, FW_B_ADDR, bd.crc_b, bd.size_b)

\* The history after a reset: a selection pass that wrote BootData extends it.
TrailAfterBoot ==
    IF boot_sector' = boot_sector /\ flash_ops' = <<>>
    THEN trail
    ELSE IF /\ trail # NoTrail
            /\ Len(trail.picks) <= MAX_BOOT_ATTEMPTS
            /\ BothCrcValid
            /\ read_boot_data.confirmed = 0
    THEN [trail EXCEPT !.picks =
            Append(@, Pick(IF pc' = "firmware" THEN running' ELSE 0, boot_sector'))]
    ELSE NoTrail

\* The history of a reset: the record read, if a selection pass ran.
SelectedAfterBoot ==
    IF flash_ops' # <<>> \/ pc' = "panic" THEN read_boot_data ELSE NoSelection

\* Reset of the device: the environment picks the level of the GP2 pin.
BootPass ==
    /\ \E gp2_is_low \in BOOLEAN, overflow_checks \in BOOLEAN :
            /\ main(gp2_is_low, overflow_checks)
            /\ seen' = SeenTrigger(gp2_is_low, check_update_trigger(gp2_is_low))
    /\ trail' = TrailAfterBoot
    /\ committed' = IF committed # NoCommit /\ flash_ops' # <<>>
                    THEN [committed EXCEPT !.booted = TRUE]
                    ELSE committed
    /\ selected' = SelectedAfterBoot
    /\ UNCHANGED bench

\* The resets of the device specification, as many as its bound allows.
Boot ==
    /\ read_boot_data.boot_attempts < MaxBootCount
    /\ BootPass

\* The firmware confirms its boot.
ConfirmBoot ==
    /\ confirm_boot
    /\ trail' = NoTrail
    /\ selected' = NoSelection
    /\ UNCHANGED <<committed, bench>>

FirmwareReboot ==
    /\ reboot
    /\ selected' = NoSelection
    /\ seen' = NothingSeen
    /\ UNCHANGED <<trail, committed, bench>>

FirmwareRebootToBootloader ==
    /\ reboot_to_bootloader
    /\ selected' = NoSelection
    /\ seen' = NothingSeen
    /\ UNCHANGED <<trail, committed, bench>>

\* Power cycle or reset pin while the bootloader or the firmware runs.
ExternalReset ==
    /\ pc \in {"update", "firmware"}
    /\ pc' = "reset"
    /\ state' = Idle
    /\ running' = 0
    /\ flash_ops' = <<>>
    /\ cmd' = NoCommand
    /\ resp' = NoResponse
    /\ selected' = NoSelection
    /\ seen' = SeenAtReset
    /\ UNCHANGED <<flash, boot_sector, ram_flag, sessions, trail, committed,
                   bench>>

Init ==
    /\ pc = "reset"
    /\ state = Idle
    /\ flash = [o \in FlashOffsets |-> ERASED]
    /\ boot_sector = ErasedBootData
    /\ ram_flag = 0
    /\ running = 0
    /\ cmd = NoCommand
    /\ resp = NoResponse
    /\ flash_ops = <<>>
    /\ sessions = 0
    /\ trail = NoTrail
    /\ committed = NoCommit
    /\ selected = NoSelection
    /\ seen = NothingSeen
    /\ fsm = NoFsm
    /\ usb = NoUsb
    /\ cobs = NoCobs
    /\ rom = NoRom

Next ==
    \/ Boot
    \/ GetStatus
    \/ StartUpdate
    \/ DataBlock
    \/ FinishUpdate
    \/ SetActiveBank
    \/ WipeAll
    \/ Reboot
    \/ ConfirmBoot
    \/ FirmwareReboot
    \/ FirmwareRebootToBootloader
    \/ ExternalReset

Spec == Init /\ [][Next]_vars

(***************************************************************************)
(* Any number of consecutive boots of a device that holds one committed    *)
(* image: resets, boots and confirmations only, boot_attempts over the     *)
(* whole range of u8.                                                      *)
(***************************************************************************)
\* The device after the first commit of the release that boots, into either
\* bank, and the reset that follows.
InitBoots ==
    /\ pc = "reset"
    /\ state = Idle
    /\ \E bank \in Banks, rel \in {r \in HostReleases : r.version = 1} :
            LET bank_addr == IF bank = 0 THEN FW_A_ADDR ELSE FW_B_ADDR
                st == Receiving(bank, bank_addr, Len(rel.image), rel.crc32,
                                rel.version, Len(rel.image))
            IN  /\ flash = [o \in FlashOffsets |->
                              LET i == o - addr_to_offset(bank_addr) + 1 IN
                              IF 1 <= i /\ i <= Len(rel.image)
                              THEN rel.image[i] ELSE ERASED]
                /\ boot_sector = finish_boot_data(st, default_new)
    /\ ram_flag = 0
    /\ running = 0
    /\ cmd = NoCommand
    /\ resp = NoResponse
    /\ flash_ops = <<>>
    /\ sessions = 1
    /\ trail = NoTrail
    /\ committed = NoCommit
    /\ selected = NoSelection
    /\ seen = NothingSeen
    /\ fsm = NoFsm
    /\ usb = NoUsb
    /\ cobs = NoCobs
    /\ rom = NoRom

NextBoots == BootPass \/ ConfirmBoot \/ FirmwareReboot \/ ExternalReset

SpecBoots == InitBoots /\ [][NextBoots]_vars

(***************************************************************************)
(* A selection pass on every BootData and bank content of a bounded set:   *)
(* the specification for properties of select_boot_bank as a function.    *)
(***************************************************************************)
\* boot_attempts values: around the rollback threshold and at the top of u8.
AttemptValues == (0 .. (MAX_BOOT_ATTEMPTS + 1)) \cup {U8_MOD - 2, U8_MOD - 1}

\* Bank contents: erased, the two releases, a release cut short.
BankContents ==
    {<<ERASED, ERASED, ERASED, ERASED>>, <<1, 2, 0, ERASED>>, <<0, 2, 0, 1>>,
     <<1, 2, ERASED, ERASED>>}

\* <<crc, size>> a record may hold for a bank: empty, or a release.
BankMetadata ==
    {<<0, 0>>} \cup {<<rel.crc32, Len(rel.image)>> : rel \in HostReleases}

InitSelect ==
    /\ pc = "reset"
    /\ state = Idle
    /\ \E a \in BankContents, b \in BankContents :
            flash = [o \in FlashOffsets |->
                        IF o < addr_to_offset(FW_B_ADDR)
                        THEN a[o - addr_to_offset(FW_A_ADDR) + 1]
                        ELSE b[o - addr_to_offset(FW_B_ADDR) + 1]]
    /\ \E active \in Banks, conf \in {0, 1}, attempts \in AttemptValues,
          ma \in BankMetadata, mb \in BankMetadata :
            boot_sector = [default_new EXCEPT !.active_bank = active,
                                              !.confirmed = conf,
                                              !.boot_attempts = attempts,
                                              !.crc_a = ma[1], !.size_a = ma[2],
                                              !.crc_b = mb[1], !.size_b = mb[2]]
    /\ ram_flag = 0
    /\ running = 0
    /\ cmd = NoCommand
    /\ resp = NoResponse
    /\ flash_ops = <<>>
    /\ sessions = 0
    /\ trail = NoTrail
    /\ committed = NoCommit
    /\ selected = NoSelection
    /\ seen = NothingSeen
    /\ fsm = NoFsm
    /\ usb = NoUsb
    /\ cobs = NoCobs
    /\ rom = NoRom

SelectPass ==
    /\ \E gp2_is_low \in BOOLEAN, overflow_checks \in BOOLEAN :
            main(gp2_is_low, overflow_checks)
    /\ selected' = SelectedAfterBoot
    /\ UNCHANGED <<trail, committed, seen, bench>>

NextSelect == SelectPass

SpecSelect == InitSelect /\ [][NextSelect]_vars

(***************************************************************************)
(* One call of the firmware's confirm_boot on every BootData sector of a   *)
(* bounded set: the specification for properties of confirm_boot as a      *)
(* function.                                                               *)
(***************************************************************************)
InitConfirm ==
    /\ pc = "firmware"
    /\ state = Idle
    /\ flash = [o \in FlashOffsets |-> ERASED]
    /\ \/ boot_sector = ErasedBootData
       \/ \E active \in Banks, conf \in {0, 1}, attempts \in AttemptValues,
             ma \in BankMetadata, mb \in BankMetadata, v \in 0 .. 1 :
               boot_sector = [default_new EXCEPT !.active_bank = active,
                                                 !.confirmed = conf,
                                                 !.boot_attempts = attempts,
                                                 !.crc_a = ma[1], !.size_a = ma[2],
                                                 !.crc_b = mb[1], !.size_b = mb[2],
                                                 !.version_a = v,
                                                 !.version_b = 2 - v]
    /\ ram_flag = 0
    /\ running = FW_A_ADDR
    /\ cmd = NoCommand
    /\ resp = NoResponse
    /\ flash_ops = <<>>
    /\ sessions = 0
    /\ trail = NoTrail
    /\ committed = NoCommit
    /\ selected = NoSelection
    /\ seen = NothingSeen
    /\ fsm = NoFsm
    /\ usb = NoUsb
    /\ cobs = NoCobs
    /\ rom = NoRom

NextConfirm == seen = NothingSeen /\ ConfirmBoot

SpecConfirm == InitConfirm /\ [][NextConfirm]_vars

(***************************************************************************)
(* A run of the pure FSM on every input of a bounded set: the              *)
(* specification for properties of select_boot_bank_fsm.                  *)
(***************************************************************************)
Validations == {BankValidation(c, b) : c \in BOOLEAN, b \in BOOLEAN}

Panicked == [panic |-> TRUE]

InitFsm ==
    /\ pc = "reset"
    /\ state = Idle
    /\ flash = [o \in FlashOffsets |-> ERASED]
    /\ boot_sector = ErasedBootData
    /\ ram_flag = 0
    /\ running = 0
    /\ cmd = NoCommand
    /\ resp = NoResponse
    /\ flash_ops = <<>>
    /\ sessions = 0
    /\ trail = NoTrail
    /\ committed = NoCommit
    /\ selected = NoSelection
    /\ seen = NothingSeen
    /\ usb = NoUsb
    /\ cobs = NoCobs
    /\ rom = NoRom
    /\ \E active \in Banks, conf \in {0, 1}, attempts \in AttemptValues,
          primary \in Banks, pv \in Validations, fv \in Validations :
            fsm = [bd |-> [default_new EXCEPT !.active_bank = active,
                                              !.confirmed = conf,
                                              !.boot_attempts = attempts],
                   banks |-> with_validation(
                                BankPair_new(primary, FW_A_ADDR, FW_B_ADDR,
                                             default_new), pv, fv),
                   decision |-> NoDecision]

\* One call of select_boot_bank_fsm.  With overflow checks an overflowing u8
\* addition panics, without them it wraps.
RunFsm ==
    /\ fsm.decision = NoDecision
    /\ \E overflow_checks \in BOOLEAN :
            fsm' = [fsm EXCEPT !.decision =
                        IF fsm_overflow(fsm.bd) /\ overflow_checks
                        THEN Panicked
                        ELSE select_boot_bank_fsm(fsm.bd, fsm.banks)]
    /\ UNCHANGED <<device, usb, cobs, rom>>

NextFsm == RunFsm

SpecFsm == InitFsm /\ [][NextFsm]_vars

(***************************************************************************)
(* The USB transport (crispy-bootloader/src/usb_transport.rs): repeated    *)
(* calls of try_receive on a byte stream of a bounded set.                 *)
(***************************************************************************)
\* Longest byte stream the host sends.
MaxStream == 7

\* Scaled sizes: rx_buf holds 3 bytes, a read returns at most 3 bytes.
RX_BUF_SIZE == 3
TMP_SIZE == 3

\* Bytes on the wire: the delimiter 0x00 and two other values.
WireBytes == 0 .. 2

\* Option<Command>
SomeCommand(c) == [some |-> TRUE, cmd |-> c]
NoneCommand == [some |-> FALSE]

\* postcard::from_bytes_cobs::<Command> on an accumulated frame (no 0x00 in
\* it): a frame is one COBS block, its code byte counting the block, that
\* holds the one-byte encoding of a command.
from_bytes_cobs(frame) ==
    IF Len(frame) = 2 /\ frame[1] = Len(frame)
    THEN SomeCommand(frame[2])
    ELSE NoneCommand

\* The loop of try_receive over tmp[..count] from index i on, with rx_buf
\* holding buf: the first delimiter after a non-empty frame returns.
RECURSIVE rx_loop(_, _, _)
rx_loop(tmp, i, buf) ==
    IF i > Len(tmp) THEN [rx_buf |-> buf, result |-> NoneCommand]
    ELSE IF tmp[i] = 0
         THEN IF Len(buf) > 0
              THEN [rx_buf |-> <<>>, result |-> from_bytes_cobs(buf)]
              ELSE rx_loop(tmp, i + 1, buf)
    ELSE IF Len(buf) < RX_BUF_SIZE
         THEN rx_loop(tmp, i + 1, Append(buf, tmp[i]))
    ELSE rx_loop(tmp, i + 1, <<>>)

try_receive(tmp) == rx_loop(tmp, 1, usb.rx_buf)

RECURSIVE Streams(_)
Streams(n) ==
    IF n = 0 THEN {<<>>}
    ELSE Streams(n - 1)
            \cup {Append(st, b) : st \in {t \in Streams(n - 1) : Len(t) = n - 1},
                                  b \in WireBytes}

InitTransport ==
    /\ pc = "update"
    /\ state = Idle
    /\ flash = [o \in FlashOffsets |-> ERASED]
    /\ boot_sector = ErasedBootData
    /\ ram_flag = 0
    /\ running = 0
    /\ cmd = NoCommand
    /\ resp = NoResponse
    /\ flash_ops = <<>>
    /\ sessions = 0
    /\ trail = NoTrail
    /\ committed = NoCommit
    /\ selected = NoSelection
    /\ seen = NothingSeen
    /\ fsm = NoFsm
    /\ cobs = NoCobs
    /\ rom = NoRom
    /\ \E st \in Streams(MaxStream) :
            usb = [sent |-> st, stream |-> st, rx_buf |-> <<>>, returned |-> <<>>]

\* One call of try_receive: serial.read hands over the next count bytes.
TryReceive ==
    /\ usb.stream # <<>>
    /\ \E count \in 1 .. Min(TMP_SIZE, Len(usb.stream)) :
            LET r == try_receive(SubSeq(usb.stream, 1, count)) IN
            usb' = [usb EXCEPT
                        !.stream = SubSeq(@, count + 1, Len(@)),
                        !.rx_buf = r.rx_buf,
                        !.returned = IF r.result.some
                                     THEN Append(@, r.result.cmd)
                                     ELSE @]
    /\ UNCHANGED <<device, fsm, cobs, rom>>

NextTransport == TryReceive

SpecTransport == InitTransport /\ [][NextTransport]_vars

(***************************************************************************)
(* UsbTransport::send (usb_transport.rs): the write loop of one response   *)
(* against the CDC endpoint and a host that drains it or not.              *)
(***************************************************************************)
\* Longest encoded response, and the bytes the endpoint holds until the host
\* reads them.
MaxEncoded == 6
MaxPending == 3

\* send has encoded the response and enters its loop; the endpoint holds what
\* earlier responses left in it.
InitSend ==
    /\ pc = "update"
    /\ state = Idle
    /\ flash = [o \in FlashOffsets |-> ERASED]
    /\ boot_sector = ErasedBootData
    /\ ram_flag = 0
    /\ running = 0
    /\ cmd = NoCommand
    /\ resp = NoResponse
    /\ flash_ops = <<>>
    /\ sessions = 0
    /\ trail = NoTrail
    /\ committed = NoCommit
    /\ selected = NoSelection
    /\ seen = NothingSeen
    /\ fsm = NoFsm
    /\ cobs = NoCobs
    /\ rom = NoRom
    /\ \E len \in 1 .. MaxEncoded, pending \in 0 .. MaxPending :
            usb = [encoded_len |-> len, offset |-> 0, pending |-> pending,
                   last |-> "none", polls |-> 0, returned |-> FALSE]

\* One evaluation of the loop condition and, if it holds, one iteration:
\* serial.write takes what the endpoint has room for, reports WouldBlock when
\* it has none (send then polls and tries again), or fails.  Of the number of
\* polls the parity is kept.
SendWrite ==
    /\ ~usb.returned
    /\ IF usb.offset >= usb.encoded_len
       THEN usb' = [usb EXCEPT !.returned = TRUE]
       ELSE \/ /\ usb.pending < MaxPending
               /\ LET n == Min(MaxPending - usb.pending,
                               usb.encoded_len - usb.offset)
                  IN  usb' = [usb EXCEPT !.offset = @ + n, !.pending = @ + n,
                                         !.last = "Ok"]
            \/ /\ usb.pending = MaxPending
               /\ usb' = [usb EXCEPT !.last = "WouldBlock",
                                      !.polls = (@ + 1) % 2]
            \/ usb' = [usb EXCEPT !.last = "Err", !.returned = TRUE]
    /\ UNCHANGED <<device, fsm, cobs, rom>>

\* The host reads from the endpoint.
HostDrain ==
    /\ usb.pending > 0
    /\ \E n \in 1 .. usb.pending : usb' = [usb EXCEPT !.pending = @ - n]
    /\ UNCHANGED <<device, fsm, cobs, rom>>

NextSend == SendWrite \/ HostDrain

\* The processor keeps executing send; nothing obliges the host to read.
SpecSend == InitSend /\ [][NextSend]_vars /\ WF_vars(SendWrite)

(***************************************************************************)
(* The COBS codec (crispy-common/src/cobs.rs): both encoders and both      *)
(* decoders on every byte sequence of a bounded set.                       *)
(***************************************************************************)
\* Longest byte sequence encoded.
MaxData == 5

\* Scaled byte: 2 bits.  BYTE_MAX stands for 0xFF, the largest byte and the
\* code that closes a full block of BYTE_MAX - 1 bytes.
BYTE_MAX == 3

\* Capacities N of the heapless vectors: one that holds every encoding of
\* the set and one that does not.
HeaplessCaps == {4, 2 * MaxData}

\* Option<Vec<u8>>
SomeBytes(b) == [some |-> TRUE, bytes |-> b]
NoBytes == [some |-> FALSE]

\* Faulty variant of encode: the code byte of the last block stays the
\* placeholder.
encode_unfinished(data) ==
    LET RECURSIVE loop(_, _, _, _)
        loop(i, output, code_idx, code) ==
            IF i > Len(data) THEN Append(output, 0)
            ELSE IF data[i] = 0
                 THEN loop(i + 1,
                           Append([output EXCEPT ![code_idx + 1] = code], 0),
                           Len(output), 1)
            ELSE IF code + 1 = BYTE_MAX
                 THEN loop(i + 1,
                           Append([Append(output, data[i])
                                        EXCEPT ![code_idx + 1] = code + 1], 0),
                           Len(output) + 1, 1)
            ELSE loop(i + 1, Append(output, data[i]), code_idx, code + 1)
    IN  loop(1, <<0>>, 0, 1)

\* encode: code_idx is the index of the code byte of the block being built.
encode(data) ==
    LET RECURSIVE loop(_, _, _, _)
        loop(i, output, code_idx, code) ==
            IF i > Len(data)
            THEN Append([output EXCEPT ![code_idx + 1] = code], 0)
            ELSE IF data[i] = 0
                 THEN loop(i + 1,
                           Append([output EXCEPT ![code_idx + 1] = code], 0),
                           Len(output), 1)
            ELSE IF code + 1 = BYTE_MAX
                 THEN loop(i + 1,
                           Append([Append(output, data[i])
                                        EXCEPT ![code_idx + 1] = code + 1], 0),
                           Len(output) + 1, 1)
            ELSE loop(i + 1, Append(output, data[i]), code_idx, code + 1)
    IN  loop(1, <<0>>, 0, 1)

\* encode_heapless::<N>: a push on a full vector is ignored, a code byte is
\* stored only at an index the vector has.
encode_heapless(N, data) ==
    LET push(output, b) == IF Len(output) < N THEN Append(output, b) ELSE output
        store(output, code_idx, code) ==
            IF code_idx < Len(output)
            THEN [output EXCEPT ![code_idx + 1] = code]
            ELSE output
        RECURSIVE loop(_, _, _, _)
        loop(i, output, code_idx, code) ==
            IF i > Len(data)
            THEN push(store(output, code_idx, code), 0)
            ELSE IF data[i] = 0
                 THEN loop(i + 1, push(store(output, code_idx, code), 0),
                           Len(store(output, code_idx, code)), 1)
            ELSE IF code + 1 = BYTE_MAX
                 THEN loop(i + 1,
                           push(store(push(output, data[i]), code_idx, code + 1), 0),
                           Len(push(output, data[i])), 1)
            ELSE loop(i + 1, push(output, data[i]), code_idx, code + 1)
    IN  loop(1, push(<<>>, 0), 0, 1)

\* Faulty variant of decode: a zero is restored after a full block too.
decode_zero_after_full_block(data) ==
    LET RECURSIVE loop(_, _)
        loop(i, output) ==
            IF i >= Len(data) THEN SomeBytes(output)
            ELSE IF data[i + 1] = 0 THEN SomeBytes(output)
            ELSE LET code == data[i + 1]
                     j == i + code
                     copied == output \o SubSeq(data, i + 2, j)
                 IN  IF j > Len(data) THEN NoBytes
                     ELSE IF j < Len(data) /\ data[j + 1] # 0
                          THEN loop(j, Append(copied, 0))
                     ELSE loop(j, copied)
    IN  IF data = <<>> THEN NoBytes ELSE loop(0, <<>>)

\* decode: i is the index of the next code byte.
decode(data) ==
    LET RECURSIVE loop(_, _)
        loop(i, output) ==
            IF i >= Len(data) THEN SomeBytes(output)
            ELSE IF data[i + 1] = 0 THEN SomeBytes(output)
            ELSE LET code == data[i + 1]
                     j == i + code
                     copied == output \o SubSeq(data, i + 2, j)
                 IN  IF j > Len(data) THEN NoBytes
                     ELSE IF code < BYTE_MAX /\ j < Len(data) /\ data[j + 1] # 0
                          THEN loop(j, Append(copied, 0))
                     ELSE loop(j, copied)
    IN  IF data = <<>> THEN NoBytes ELSE loop(0, <<>>)

\* decode_heapless::<N>: a push on a full vector fails the decoding.
decode_heapless(N, data) ==
    LET RECURSIVE loop(_, _)
        loop(i, output) ==
            IF i >= Len(data) THEN SomeBytes(output)
            ELSE IF data[i + 1] = 0 THEN SomeBytes(output)
            ELSE LET code == data[i + 1]
                     j == i + code
                     copied == output \o SubSeq(data, i + 2, j)
                 IN  IF j > Len(data) \/ Len(copied) > N THEN NoBytes
                     ELSE IF code < BYTE_MAX /\ j < Len(data) /\ data[j + 1] # 0
                          THEN IF Len(copied) = N THEN NoBytes
                               ELSE loop(j, Append(copied, 0))
                     ELSE loop(j, copied)
    IN  IF data = <<>> THEN NoBytes ELSE loop(0, <<>>)

RECURSIVE ByteSeqs(_)
ByteSeqs(n) ==
    IF n = 0 THEN {<<>>}
    ELSE ByteSeqs(n - 1)
            \cup {Append(x, b) : x \in {y \in ByteSeqs(n - 1) : Len(y) = n - 1},
                                 b \in 0 .. BYTE_MAX}

InitCobs ==
    /\ pc = "reset"
    /\ state = Idle
    /\ flash = [o \in FlashOffsets |-> ERASED]
    /\ boot_sector = ErasedBootData
    /\ ram_flag = 0
    /\ running = 0
    /\ cmd = NoCommand
    /\ resp = NoResponse
    /\ flash_ops = <<>>
    /\ sessions = 0
    /\ trail = NoTrail
    /\ committed = NoCommit
    /\ selected = NoSelection
    /\ seen = NothingSeen
    /\ fsm = NoFsm
    /\ usb = NoUsb
    /\ rom = NoRom
    /\ \E x \in ByteSeqs(MaxData), N \in HeaplessCaps :
            cobs = [phase |-> "input", x |-> x, N |-> N]

\* Both encoders run on x.
CobsEncode ==
    /\ cobs.phase = "input"
    /\ cobs' = [phase |-> "encoded", x |-> cobs.x, N |-> cobs.N,
                std |-> encode(cobs.x),
                heapless |-> encode_heapless(cobs.N, cobs.x)]
    /\ UNCHANGED <<device, fsm, usb, rom>>

\* Both decoders run on both encodings.
CobsDecode ==
    /\ cobs.phase = "encoded"
    /\ cobs' = [phase |-> "decoded", x |-> cobs.x, N |-> cobs.N,
                std |-> cobs.std, heapless |-> cobs.heapless,
                std_std |-> decode(cobs.std),
                std_heapless |-> decode(cobs.heapless),
                heapless_std |-> decode_heapless(cobs.N, cobs.std),
                heapless_heapless |-> decode_heapless(cobs.N, cobs.heapless)]
    /\ UNCHANGED <<device, fsm, usb, rom>>

NextCobs == CobsEncode \/ CobsDecode

SpecCobs == InitCobs /\ [][NextCobs]_vars

(***************************************************************************)
(* flash_erase and flash_program statement by statement                    *)
(* (crispy-bootloader/src/flash.rs): calls on the banks with interrupts    *)
(* and the XIP state of the flash interface.                               *)
(***************************************************************************)
\* Calls of flash_erase / flash_program in a run.
MaxCalls == 2

\* Faulty variant of flash_erase_steps: interrupts are enabled before XIP is
\* entered again.
flash_erase_steps_enable_early ==
    <<"interrupt::disable", "ROM_CONNECT_INTERNAL_FLASH", "ROM_FLASH_EXIT_XIP",
      "ROM_FLASH_RANGE_ERASE", "ROM_FLASH_FLUSH_CACHE", "interrupt::enable",
      "ROM_FLASH_ENTER_CMD_XIP">>

\* The statements of flash_erase and of flash_program, in source order.
flash_erase_steps ==
    <<"interrupt::disable", "ROM_CONNECT_INTERNAL_FLASH", "ROM_FLASH_EXIT_XIP",
      "ROM_FLASH_RANGE_ERASE", "ROM_FLASH_FLUSH_CACHE",
      "ROM_FLASH_ENTER_CMD_XIP", "interrupt::enable">>

flash_program_steps ==
    <<"interrupt::disable", "ROM_CONNECT_INTERNAL_FLASH", "ROM_FLASH_EXIT_XIP",
      "ROM_FLASH_RANGE_PROGRAM", "ROM_FLASH_FLUSH_CACHE",
      "ROM_FLASH_ENTER_CMD_XIP", "interrupt::enable">>

\* Pages the callers program.
RomPages == {<<1, 2>>, <<0, ERASED>>}

\* Sector- and page-aligned offsets in the banks.
RomOffsets == {o \in FlashOffsets : o % FLASH_SECTOR_SIZE = 0}

InitRom ==
    /\ pc = "update"
    /\ state = Idle
    /\ flash = [o \in FlashOffsets |-> ERASED]
    /\ boot_sector = ErasedBootData
    /\ ram_flag = 0
    /\ running = 0
    /\ cmd = NoCommand
    /\ resp = NoResponse
    /\ flash_ops = <<>>
    /\ sessions = 0
    /\ trail = NoTrail
    /\ committed = NoCommit
    /\ selected = NoSelection
    /\ seen = NothingSeen
    /\ fsm = NoFsm
    /\ usb = NoUsb
    /\ cobs = NoCobs
    /\ rom = [steps |-> <<>>, done |-> <<>>, interrupts |-> TRUE, xip |-> TRUE,
              connected |-> FALSE, calls |-> 0]

\* A call of flash_erase(offset, size).
CallFlashErase ==
    /\ rom.steps = <<>>
    /\ rom.calls < MaxCalls
    /\ \E offset \in RomOffsets, sectors \in 1 .. 2 :
            /\ offset + sectors * FLASH_SECTOR_SIZE - 1 \in FlashOffsets
            /\ rom' = [steps |-> flash_erase_steps, done |-> <<>>,
                       interrupts |-> rom.interrupts, xip |-> rom.xip,
                       connected |-> rom.connected, calls |-> rom.calls + 1,
                       offset |-> offset, size |-> sectors * FLASH_SECTOR_SIZE]
    /\ UNCHANGED <<device, fsm, usb, cobs>>

\* A call of flash_program(offset, data, len) with one page.
CallFlashProgram ==
    /\ rom.steps = <<>>
    /\ rom.calls < MaxCalls
    /\ \E offset \in RomOffsets, data \in RomPages :
            rom' = [steps |-> flash_program_steps, done |-> <<>>,
                    interrupts |-> rom.interrupts, xip |-> rom.xip,
                    connected |-> rom.connected, calls |-> rom.calls + 1,
                    offset |-> offset, data |-> data]
    /\ UNCHANGED <<device, fsm, usb, cobs>>

\* The next statement of the function in progress.  The ROM range routines
\* act on the flash; the last statement returns.
RomStatement ==
    /\ rom.steps # <<>>
    /\ LET stmt == Head(rom.steps) IN
       /\ rom' = [rom EXCEPT
                    !.steps = Tail(@),
                    !.done = Append(@, stmt),
                    !.interrupts = IF stmt = "interrupt::disable" THEN FALSE
                                   ELSE IF stmt = "interrupt::enable" THEN TRUE
                                   ELSE @,
                    !.connected = IF stmt = "ROM_CONNECT_INTERNAL_FLASH"
                                  THEN TRUE ELSE @,
                    !.xip = IF stmt = "ROM_FLASH_EXIT_XIP" THEN FALSE
                            ELSE IF stmt = "ROM_FLASH_ENTER_CMD_XIP" THEN TRUE
                            ELSE @]
       /\ flash' = IF stmt = "ROM_FLASH_RANGE_ERASE"
                   THEN flash_erase(flash, rom.offset, rom.size)
                   ELSE IF stmt = "ROM_FLASH_RANGE_PROGRAM"
                   THEN flash_program(flash, rom.offset, rom.data,
                                      FLASH_PAGE_SIZE)
                   ELSE flash
    /\ UNCHANGED <<pc, state, boot_sector, ram_flag, running, cmd, resp,
                   flash_ops, sessions, trail, committed, selected, seen,
                   fsm, usb, cobs>>

NextRom == CallFlashErase \/ CallFlashProgram \/ RomStatement

SpecRom == InitRom /\ [][NextRom]_vars

(***************************************************************************)
(* The boot executor statement by statement (crispy-bootloader/src/boot.rs,*)
(* run_normal_boot from the selection on, load_and_jump and its helpers).  *)
(***************************************************************************)
\* Width of the NVIC pending and enable masks.
NVIC_BITS == 2

\* Faulty variant of handoff_steps: the image is copied before the record is
\* persisted.
handoff_steps_copy_first ==
    <<"copy_firmware_to_ram", "write_boot_data", "validate_bank",
      "interrupt::disable", "NVIC_ICPR", "NVIC_ICER", "interrupt::disable",
      "SCB_VTOR", "VectorTable::read_from", "msr msp", "cpsie i", "bx">>

\* The statements of run_normal_boot after select_boot_bank has returned,
\* with those of load_and_jump, prepare_for_firmware_handoff,
\* relocate_vector_table and jump_to_firmware in place of the calls.
handoff_steps ==
    <<"write_boot_data", "validate_bank", "copy_firmware_to_ram",
      "interrupt::disable", "NVIC_ICPR", "NVIC_ICER", "interrupt::disable",
      "SCB_VTOR", "VectorTable::read_from", "msr msp", "cpsie i", "bx">>

\* The processor and the RAM before run_normal_boot has selected a bank.
NoHandoff(pending, enable) ==
    [steps |-> <<>>, done |-> <<>>, interrupts |-> TRUE,
     nvic_pending |-> pending, nvic_enable |-> enable, vtor |-> 0,
     ram |-> <<>>, vt |-> <<>>, msp |-> 0, branch |-> 0,
     sel |-> NoSelection]

\* A device that holds one release in one bank, committed, after a reset
\* without update trigger; any interrupts enabled and pending in the NVIC.
InitHandoff ==
    /\ pc = "reset"
    /\ state = Idle
    /\ \E bank \in Banks, rel \in HostReleases :
            LET bank_addr == IF bank = 0 THEN FW_A_ADDR ELSE FW_B_ADDR
                st == Receiving(bank, bank_addr, Len(rel.image), rel.crc32,
                                rel.version, Len(rel.image))
            IN  /\ flash = [o \in FlashOffsets |->
                              LET i == o - addr_to_offset(bank_addr) + 1 IN
                              IF 1 <= i /\ i <= Len(rel.image)
                              THEN rel.image[i] ELSE ERASED]
                /\ boot_sector = finish_boot_data(st, default_new)
    /\ ram_flag = 0
    /\ running = 0
    /\ cmd = NoCommand
    /\ resp = NoResponse
    /\ flash_ops = <<>>
    /\ sessions = 1
    /\ trail = NoTrail
    /\ committed = NoCommit
    /\ selected = NoSelection
    /\ seen = NothingSeen
    /\ fsm = NoFsm
    /\ usb = NoUsb
    /\ cobs = NoCobs
    /\ \E pending \in 0 .. (2^NVIC_BITS - 1), enable \in 0 .. (2^NVIC_BITS - 1) :
            rom = NoHandoff(pending, enable)

\* run_normal_boot up to the return of select_boot_bank.
SelectForHandoff ==
    /\ pc = "reset"
    /\ rom.steps = <<>>
    /\ rom.done = <<>>
    /\ ~(read_boot_data.size_a = 0 /\ read_boot_data.size_b = 0)
    /\ ~select_boot_bank(read_boot_data, flash).overflow
    /\ rom' = [rom EXCEPT !.steps = handoff_steps,
                          !.sel = select_boot_bank(read_boot_data, flash)]
    /\ UNCHANGED <<device, fsm, usb, cobs>>

\* The next statement.  A bank that fails validate_bank ends the sequence in
\* update mode; bx ends it in the firmware.
HandoffStatement ==
    /\ rom.steps # <<>>
    /\ LET stmt == Head(rom.steps)
           refused == stmt = "validate_bank"
                        /\ ~validate_bank(flash, rom.sel.flash_addr)
       IN
       /\ rom' = [rom EXCEPT
                    !.steps = IF refused THEN <<>> ELSE Tail(@),
                    !.done = Append(@, stmt),
                    !.ram = IF stmt = "copy_firmware_to_ram"
                            THEN flash_read(flash, rom.sel.flash_addr,
                                            FW_BANK_SIZE)
                            ELSE @,
                    !.interrupts = IF stmt = "interrupt::disable" THEN FALSE
                                   ELSE IF stmt = "cpsie i" THEN TRUE
                                   ELSE @,
                    !.nvic_pending = IF stmt = "NVIC_ICPR" THEN 0 ELSE @,
                    !.nvic_enable = IF stmt = "NVIC_ICER" THEN 0 ELSE @,
                    !.vtor = IF stmt = "SCB_VTOR" THEN FW_RAM_START ELSE @,
                    !.vt = IF stmt = "VectorTable::read_from"
                           THEN SubSeq(rom.ram, 1, 2) ELSE @,
                    !.msp = IF stmt = "msr msp" THEN rom.vt[1] ELSE @,
                    !.branch = IF stmt = "bx" THEN rom.vt[2] ELSE @]
       /\ IF stmt = "write_boot_data"
          THEN write_boot_data(rom.sel.bd)
          ELSE UNCHANGED <<boot_sector, flash_ops>>
       /\ IF refused
          THEN enter_update_mode
          ELSE IF stmt = "bx"
          THEN load_and_jump(rom.sel.flash_addr)
          ELSE UNCHANGED <<pc, state, running>>
    /\ UNCHANGED <<flash, ram_flag, cmd, resp, sessions, trail, committed,
                   selected, seen, fsm, usb, cobs>>

NextHandoff == SelectForHandoff \/ HandoffStatement

SpecHandoff == InitHandoff /\ [][NextHandoff]_vars

(***************************************************************************)
(* Properties.                                                             *)
(***************************************************************************)
BankAddr(bank) == IF bank = 0 THEN FW_A_ADDR ELSE FW_B_ADDR

\* <<crc, size, version>> a record holds for a bank.
bank_image(bd, bank) ==
    IF bank = 0 THEN <<bd.crc_a, bd.size_a, bd.version_a>>
    ELSE <<bd.crc_b, bd.size_b, bd.version_b>>

\* The CRC of the first size cells of a bank, computed the way the host
\* computes the CRC of an image.
bank_crc(f, bank, size) == crc32_of(flash_read(f, BankAddr(bank), size))

\* The first two cells of the bank at addr both lie in the RAM region.
VectorTableInRam(f, addr) ==
    /\ f[addr - FLASH_BASE] \in FW_RAM_START .. FW_RAM_END
    /\ f[addr - FLASH_BASE + 1] \in FW_RAM_START .. FW_RAM_END

\* The step handles the command that cmd' describes.
Handles(kind) == pc = "update" /\ cmd'.kind = kind

\* C1: a step changes the crc, size and version BootData holds for a bank
\* only if it is a FinishUpdate of a session on that bank with
\* bytes_received = expected_size and the CRC over expected_size cells of the
\* bank equal to expected_crc, which records the session's values; the one
\* other change is WipeAll clearing them to 0.
C1_CommitOnlyVerifiedImage ==
    [][\A bank \in Banks :
        bank_image(read_boot_data', bank) # bank_image(read_boot_data, bank) =>
            \/ /\ Handles("WipeAll")
               /\ bank_image(read_boot_data', bank) = <<0, 0, 0>>
            \/ /\ Handles("FinishUpdate")
               /\ state.tag = "Receiving"
               /\ state.bank = bank
               /\ state.bytes_received = state.expected_size
               /\ bank_crc(flash, bank, state.expected_size) = state.expected_crc
               /\ bank_image(read_boot_data', bank) =
                    <<state.expected_crc, state.expected_size, state.version>>]_vars

\* A FinishUpdate has just committed an image.
C1_Witness ==
    /\ pc = "update"
    /\ cmd.kind = "FinishUpdate"
    /\ resp = Ack("Ok")
    /\ bank_image(boot_sector, boot_sector.active_bank)[2] > 0

\* C2: a FinishUpdate that passes the size and CRC checks writes a record with
\* active_bank = the session's bank, confirmed = 0, boot_attempts = 0, that
\* bank's crc, size, version from the session and the other bank's as read
\* before (0 if the sector held no valid magic), answers Ack(Ok) and goes to
\* Idle.
C2_FinishUpdateRecord ==
    [][(/\ Handles("FinishUpdate")
        /\ state.tag = "Receiving"
        /\ state.bytes_received = state.expected_size
        /\ bank_crc(flash, state.bank, state.expected_size) = state.expected_crc)
       => /\ resp' = Ack("Ok")
          /\ state' = Idle
          /\ boot_sector'.magic = BOOT_DATA_MAGIC
          /\ boot_sector'.active_bank = state.bank
          /\ boot_sector'.confirmed = 0
          /\ boot_sector'.boot_attempts = 0
          /\ bank_image(boot_sector', state.bank) =
                <<state.expected_crc, state.expected_size, state.version>>
          /\ bank_image(boot_sector', 1 - state.bank) =
                IF boot_sector.magic = BOOT_DATA_MAGIC
                THEN bank_image(boot_sector, 1 - state.bank)
                ELSE <<0, 0, 0>>]_vars

\* A FinishUpdate has committed a bank while the other bank's image is kept.
C2_Witness ==
    /\ pc = "update"
    /\ cmd.kind = "FinishUpdate"
    /\ resp = Ack("Ok")
    /\ boot_sector.size_a > 0
    /\ boot_sector.size_b > 0
    /\ state = Idle

\* The answer to the GetStatus just handled reports a commit that no accepted
\* StartUpdate, FinishUpdate, SetActiveBank or WipeAll has followed.
StatusAfterCommit ==
    /\ committed # NoCommit
    /\ pc = "update"
    /\ cmd.kind = "GetStatus"

\* The version a Status response reports for a bank.
status_version(r, bank) == IF bank = 0 THEN r.version_a ELSE r.version_b

\* C3 as stated: after a commit of bank b, GetStatus reports b's version as
\* committed and active_bank = b, and the CRC over the committed size of b's
\* flash is the committed CRC.
C3_Original ==
    StatusAfterCommit =>
        /\ status_version(resp, committed.bank) = committed.version
        /\ resp.active_bank = committed.bank
        /\ bank_crc(flash, committed.bank, committed.size) = committed.crc

\* C3, amended: after a commit of bank b, GetStatus reports b's version as
\* committed and the CRC over the committed size of b's flash is the committed
\* CRC; active_bank = b is reported as long as no selection pass of a normal
\* boot has run since the commit.
C3_StatusAfterCommit ==
    StatusAfterCommit =>
        /\ status_version(resp, committed.bank) = committed.version
        /\ bank_crc(flash, committed.bank, committed.size) = committed.crc
        /\ ~committed.booted => resp.active_bank = committed.bank

\* GetStatus answered after a commit of bank B, before any boot.
C3_Witness ==
    /\ StatusAfterCommit
    /\ ~committed.booted
    /\ committed.bank = 1
    /\ resp.type = "Status"
    /\ resp.version_b = committed.version

\* C4: after a commit of bank b with both banks CRC-valid and no confirmation,
\* the first three selection passes return bank b with boot_attempts 1, 2, 3
\* and the fourth returns the other bank with boot_attempts 1.
C4_RollbackAfterThreeBoots ==
    trail # NoTrail =>
        \A i \in 1 .. Len(trail.picks) :
            trail.picks[i] =
                IF i <= 3
                THEN [flash_addr |-> BankAddr(trail.bank),
                      active_bank |-> trail.bank,
                      boot_attempts |-> i]
                ELSE [flash_addr |-> BankAddr(1 - trail.bank),
                      active_bank |-> 1 - trail.bank,
                      boot_attempts |-> 1]

\* Four selection passes have followed a commit.
C4_Witness ==
    /\ trail # NoTrail
    /\ Len(trail.picks) = 4
    /\ pc = "firmware"
    /\ running = BankAddr(1 - trail.bank)

\* A selection pass has just run on a record with the given confirmed flag.
Selected(confirmed) == selected # NoSelection /\ selected.confirmed = confirmed

\* C5 as stated: a selection pass on a confirmed record never rolls back, does
\* not reset boot_attempts to 0, and returns the primary with boot_attempts + 1
\* when the primary is CRC-valid.
C5_NoRollbackWhenConfirmed ==
    Selected(1) =>
        /\ pc # "panic"
        /\ ~needs_rollback(selected)
        /\ boot_sector.boot_attempts # 0
        /\ validate_bank_with_crc(flash, BankAddr(selected.active_bank),
                                  bank_image(selected, selected.active_bank)[1],
                                  bank_image(selected, selected.active_bank)[2])
           => /\ boot_sector =
                    [selected EXCEPT !.boot_attempts = selected.boot_attempts + 1]
              /\ pc = "firmware"
              /\ running = BankAddr(selected.active_bank)

\* A selection pass has just run on an unconfirmed record whose boot attempts
\* are exhausted.
SelectedExhausted ==
    /\ Selected(0)
    /\ selected.boot_attempts >= 3

\* The bank passes the CRC validation against the record bd.
CrcValid(bd, bank) ==
    /\ bank_image(bd, bank)[2] # 0
    /\ VectorTableInRam(flash, BankAddr(bank))
    /\ bank_crc(flash, bank, bank_image(bd, bank)[2]) = bank_image(bd, bank)[1]

\* C6 as stated: after a selection pass on an unconfirmed record with
\* boot_attempts >= 3 the returned active_bank is the complement of the
\* record's, whatever the validations give.
C6_Original ==
    SelectedExhausted => boot_sector.active_bank = 1 - selected.active_bank

\* C6, amended: after a selection pass on an unconfirmed record with
\* boot_attempts >= 3 the returned active_bank is the complement of the
\* record's if the complement bank is CRC-valid, or if the record's bank is not
\* CRC-valid and either the complement passes the basic validation or the
\* record's bank fails it; otherwise it is the record's active_bank again.
C6_RollbackTarget ==
    SelectedExhausted =>
        LET old == selected.active_bank
            new == 1 - selected.active_bank
        IN  boot_sector.active_bank =
                IF \/ CrcValid(selected, new)
                   \/ /\ ~CrcValid(selected, old)
                      /\ \/ VectorTableInRam(flash, BankAddr(new))
                         \/ ~VectorTableInRam(flash, BankAddr(old))
                THEN new
                ELSE old

\* A pass on an exhausted record has returned to the record's own bank, the
\* complement being valid only by its vector table.
C6_Witness ==
    /\ SelectedExhausted
    /\ boot_sector.active_bank = selected.active_bank
    /\ VectorTableInRam(flash, BankAddr(1 - selected.active_bank))
    /\ pc = "firmware"

\* The attempt count the FSM run started from, after its rollback pre-step.
FsmCurrent ==
    IF fsm.bd.boot_attempts >= 3 /\ fsm.bd.confirmed = 0
    THEN 0
    ELSE fsm.bd.boot_attempts

\* The decisions C7 names: the primary with current + 1, the fallback with 1.
FsmPrimary ==
    [flash_addr |-> fsm.banks.primary.addr,
     active_bank |-> fsm.banks.primary.bank_id,
     boot_attempts |-> FsmCurrent + 1,
     confirmed |-> 0]

FsmFallback ==
    [flash_addr |-> fsm.banks.fallback.addr,
     active_bank |-> fsm.banks.fallback.bank_id,
     boot_attempts |-> 1,
     confirmed |-> 0]

\* C7 as stated: select_boot_bank_fsm returns the decision of the first
\* matching strategy in the order primary-CRC, fallback-CRC, primary-basic,
\* fallback-basic, and the primary with current + 1 if none matches, for every
\* validation outcome and every attempt count.
C7_FirstMatchingStrategy ==
    fsm.decision # NoDecision =>
        fsm.decision =
            IF fsm.banks.primary_validation.crc_valid THEN FsmPrimary
            ELSE IF fsm.banks.fallback_validation.crc_valid THEN FsmFallback
            ELSE IF fsm.banks.primary_validation.basic_valid THEN FsmPrimary
            ELSE IF fsm.banks.fallback_validation.basic_valid THEN FsmFallback
            ELSE FsmPrimary

\* C8: firmware runs only from a bank whose first two words lie in the RAM
\* region; after a selection pass the bootloader has jumped to the selected
\* bank if that bank passes this validation and has entered update mode,
\* without jumping, if it does not.
C8_JumpOnlyToValidatedBank ==
    /\ pc = "firmware" =>
        /\ running \in {FW_A_ADDR, FW_B_ADDR}
        /\ VectorTableInRam(flash, running)
    /\ (selected # NoSelection /\ pc # "panic") =>
        IF VectorTableInRam(flash, BankAddr(boot_sector.active_bank))
        THEN pc = "firmware" /\ running = BankAddr(boot_sector.active_bank)
        ELSE pc = "update" /\ running = 0

\* A selection pass has selected a bank that fails the validation, and the
\* bootloader is in update mode.
C8_Witness ==
    /\ selected # NoSelection
    /\ ~VectorTableInRam(flash, BankAddr(boot_sector.active_bank))
    /\ flash[BankAddr(boot_sector.active_bank) - FLASH_BASE] # ERASED
    /\ pc = "update"

\* C9: a DataBlock answered Ack(Ok) was handled in Receiving with offset =
\* bytes_received, and adds the length of its data to bytes_received, leaving
\* the other session fields as they were.
C9_AcceptedDataBlock ==
    [][(Handles("DataBlock") /\ resp' = Ack("Ok"))
       => /\ state.tag = "Receiving"
          /\ cmd'.offset = state.bytes_received
          /\ state' = [state EXCEPT
                          !.bytes_received = state.bytes_received + cmd'.len]]_vars

\* A non-empty DataBlock beyond the first has been accepted.
C9_Witness ==
    /\ pc = "update"
    /\ cmd.kind = "DataBlock"
    /\ resp = Ack("Ok")
    /\ cmd.len > 0
    /\ cmd.offset > 0
    /\ state.bytes_received = cmd.offset + cmd.len

\* C10: a DataBlock in Receiving with offset # bytes_received is answered
\* Ack(BadCommand), programs nothing and leaves the session unchanged, and the
\* DataBlock at offset bytes_received that follows it is accepted if it fits
\* the announced size; a DataBlock in Idle is answered Ack(BadState) and the
\* FSM stays Idle.
C10_RejectedDataBlock ==
    [][/\ (Handles("DataBlock") /\ state.tag = "Receiving"
           /\ cmd'.offset # state.bytes_received)
          => /\ resp' = Ack("BadCommand")
             /\ flash_ops' = <<>>
             /\ flash' = flash
             /\ boot_sector' = boot_sector
             /\ state' = state
       /\ (Handles("DataBlock") /\ state.tag = "Receiving"
           /\ cmd.kind = "DataBlock" /\ resp = Ack("BadCommand")
           /\ cmd.offset # state.bytes_received
           /\ cmd'.offset = state.bytes_received
           /\ state.bytes_received + cmd'.len <= state.expected_size)
          => /\ resp' = Ack("Ok")
             /\ state'.bytes_received = state.bytes_received + cmd'.len
       /\ (Handles("DataBlock") /\ state.tag = "Idle")
          => /\ resp' = Ack("BadState")
             /\ flash_ops' = <<>>
             /\ flash' = flash
             /\ state' = Idle]_vars

\* A DataBlock at a wrong offset has been rejected during a session that had
\* already received data.
C10_Witness ==
    /\ pc = "update"
    /\ state.tag = "Receiving"
    /\ state.bytes_received > 0
    /\ cmd.kind = "DataBlock"
    /\ cmd.offset # state.bytes_received
    /\ resp = Ack("BadCommand")

\* The step handles a FinishUpdate of a complete session whose bank does not
\* have the announced CRC.
FinishWithCrcMismatch ==
    /\ Handles("FinishUpdate")
    /\ state.tag = "Receiving"
    /\ state.bytes_received = state.expected_size
    /\ bank_crc(flash, state.bank, state.expected_size) # state.expected_crc

\* C11: a FinishUpdate of a complete session whose bank's CRC differs from
\* expected_crc is answered Ack(CrcError), goes to Idle and writes nothing:
\* the persisted BootData is the one from before.
C11_CrcErrorKeepsBootData ==
    [][FinishWithCrcMismatch
       => /\ resp' = Ack("CrcError")
          /\ state' = Idle
          /\ boot_sector' = boot_sector
          /\ flash_ops' = <<>>]_vars

\* A FinishUpdate has been answered Ack(CrcError) while BootData holds an
\* earlier commit.
C11_Witness ==
    /\ pc = "update"
    /\ cmd.kind = "FinishUpdate"
    /\ resp = Ack("CrcError")
    /\ state = Idle
    /\ boot_sector.magic = BOOT_DATA_MAGIC
    /\ boot_sector.size_a + boot_sector.size_b > 0

\* The flash offsets erased by the StartUpdate of session st.
SessionErased(st) ==
    LET first == st.bank_addr - FLASH_BASE
        sectors == (st.expected_size + FLASH_SECTOR_SIZE - 1) \div FLASH_SECTOR_SIZE
    IN  first .. (first + sectors * FLASH_SECTOR_SIZE - 1)

\* C12 as stated: after a FinishUpdate answered Ack(CrcError) the range erased
\* by the session's StartUpdate reads back as erased.
C12_BankErasedAfterCrcError ==
    [][(Handles("FinishUpdate") /\ resp' = Ack("CrcError"))
       => \A o \in SessionErased(state) : flash'[o] = ERASED]_vars

\* C13: a FinishUpdate in Receiving with bytes_received # expected_size is
\* answered Ack(BadCommand) and changes neither the session nor BootData nor
\* the flash; a session, also one that had such a FinishUpdate, accepts the
\* DataBlocks that fit at offset bytes_received, and the FinishUpdate of the
\* complete, CRC-matching bank is answered Ack(Ok).
C13_ShortFinishIsRecoverable ==
    [][/\ (Handles("FinishUpdate") /\ state.tag = "Receiving"
           /\ state.bytes_received # state.expected_size)
          => /\ resp' = Ack("BadCommand")
             /\ state' = state
             /\ boot_sector' = boot_sector
             /\ flash' = flash
             /\ flash_ops' = <<>>
       /\ (Handles("DataBlock") /\ state.tag = "Receiving"
           /\ cmd'.offset = state.bytes_received
           /\ state.bytes_received + cmd'.len <= state.expected_size)
          => /\ resp' = Ack("Ok")
             /\ state'.bytes_received = state.bytes_received + cmd'.len
       /\ (Handles("FinishUpdate") /\ state.tag = "Receiving"
           /\ state.bytes_received = state.expected_size
           /\ bank_crc(flash, state.bank, state.expected_size) = state.expected_crc)
          => resp' = Ack("Ok")]_vars

\* A FinishUpdate was refused in a session that had received a part of the
\* image, and the session is as it was.
C13_Witness ==
    /\ pc = "update"
    /\ cmd.kind = "FinishUpdate"
    /\ resp = Ack("BadCommand")
    /\ state.tag = "Receiving"
    /\ state.bytes_received > 0
    /\ state.bytes_received < state.expected_size
    /\ flash_ops = <<>>

\* Arguments a StartUpdate must have to be accepted in Idle.
StartUpdateArgsValid(c) ==
    c.bank <= 1 /\ c.size # 0 /\ c.size <= FW_BANK_SIZE

\* C14: StartUpdate is answered Ack(BadState) whenever the state is Receiving,
\* whatever its arguments, otherwise Ack(BankInvalid) when bank > 1 or size = 0
\* or size > FW_BANK_SIZE, otherwise Ack(Ok); a rejected StartUpdate erases
\* nothing and leaves the state, with every field of a session, unchanged.
C14_StartUpdateAnswers ==
    [][Handles("StartUpdate")
       => /\ resp' = IF state.tag = "Receiving" THEN Ack("BadState")
                     ELSE IF ~StartUpdateArgsValid(cmd') THEN Ack("BankInvalid")
                     ELSE Ack("Ok")
          /\ resp' # Ack("Ok")
             => /\ state' = state
                /\ flash' = flash
                /\ flash_ops' = <<>>
                /\ boot_sector' = boot_sector]_vars

\* A StartUpdate with acceptable arguments was refused by a session that had
\* already received data.
C14_Witness ==
    /\ pc = "update"
    /\ cmd.kind = "StartUpdate"
    /\ StartUpdateArgsValid(cmd)
    /\ resp = Ack("BadState")
    /\ state.tag = "Receiving"
    /\ state.bytes_received > 0

\* The flash offsets of the sectors that hold the first size cells of a bank.
SectorsOf(bank, size) ==
    LET base == BankAddr(bank) - FLASH_BASE
        count == (size + FLASH_SECTOR_SIZE - 1) \div FLASH_SECTOR_SIZE
    IN  base .. (base + count * FLASH_SECTOR_SIZE - 1)

StoredSize(bank) ==
    IF bank = 0 THEN read_boot_data.size_a ELSE read_boot_data.size_b
StoredCrc(bank) ==
    IF bank = 0 THEN read_boot_data.crc_a ELSE read_boot_data.crc_b

\* The answer the SetActiveBank{bank} contract prescribes in the current state.
SetActiveBankAnswer(bank) ==
    IF state.tag = "Receiving" THEN Ack("BadState")
    ELSE IF bank > 1 \/ StoredSize(bank) = 0 THEN Ack("BankInvalid")
    ELSE IF bank_crc(flash, bank, StoredSize(bank)) # StoredCrc(bank)
    THEN Ack("CrcError")
    ELSE Ack("Ok")

\* C16: SetActiveBank is answered Ack(BadState) in Receiving, Ack(BankInvalid)
\* when bank > 1 or the stored size of the bank is 0, Ack(CrcError) when the
\* CRC-32 over the stored size of the bank's flash differs from the stored
\* CRC; in each of these cases BootData and the state are unchanged.
C16_RejectedSetActiveBank ==
    [][(Handles("SetActiveBank") /\ SetActiveBankAnswer(cmd'.bank) # Ack("Ok"))
       => /\ resp' = SetActiveBankAnswer(cmd'.bank)
          /\ boot_sector' = boot_sector
          /\ state' = state
          /\ flash' = flash
          /\ flash_ops' = <<>>]_vars

\* A SetActiveBank was refused for the CRC of a bank the record describes.
C16_Witness ==
    /\ pc = "update"
    /\ cmd.kind = "SetActiveBank"
    /\ resp = Ack("CrcError")
    /\ state = Idle
    /\ boot_sector.magic = BOOT_DATA_MAGIC
    /\ StoredSize(cmd.bank) > 0

\* C17: a SetActiveBank{bank} accepted in Idle (bank 0 or 1, stored size not 0,
\* stored CRC matching the bank's flash) writes BootData with active_bank =
\* bank, confirmed = 0, boot_attempts = 0 and the versions, CRCs and sizes of
\* both banks unchanged, answers Ack(Ok) and stays Idle, also when bank is
\* already the active bank.
C17_AcceptedSetActiveBank ==
    [][(Handles("SetActiveBank") /\ SetActiveBankAnswer(cmd'.bank) = Ack("Ok"))
       => LET old == read_boot_data
              new == boot_sector'
          IN  /\ resp' = Ack("Ok")
              /\ state' = Idle
              /\ flash_ops' # <<>>
              /\ flash' = flash
              /\ new.magic = BOOT_DATA_MAGIC
              /\ new.active_bank = cmd'.bank
              /\ new.confirmed = 0
              /\ new.boot_attempts = 0
              /\ new.version_a = old.version_a
              /\ new.version_b = old.version_b
              /\ new.crc_a = old.crc_a
              /\ new.crc_b = old.crc_b
              /\ new.size_a = old.size_a
              /\ new.size_b = old.size_b]_vars

\* The bank that was active and confirmed was selected again.
C17_Witness ==
    /\ pc = "update"
    /\ cmd.kind = "SetActiveBank"
    /\ resp = Ack("Ok")
    /\ seen = [what |-> "BootData", active_bank |-> cmd.bank, confirmed |-> 1]
    /\ boot_sector.active_bank = cmd.bank
    /\ boot_sector.confirmed = 0

\* The default record: magic set, bank A active, everything else 0.
DefaultRecord ==
    [magic |-> BOOT_DATA_MAGIC, active_bank |-> 0, confirmed |-> 0,
     boot_attempts |-> 0, version_a |-> 0, version_b |-> 0,
     crc_a |-> 0, crc_b |-> 0, size_a |-> 0, size_b |-> 0]

\* The step is a reset handled by the bootloader's entry.
BootStep == pc = "reset" /\ pc' # "reset"

\* C18: WipeAll received in Idle writes the default record, answers Ack(Ok)
\* and stays Idle; WipeAll received in Receiving is answered Ack(BadState) and
\* leaves BootData and the session unchanged; a reset without update trigger
\* that finds the record an accepted WipeAll wrote enters update mode and
\* jumps to no firmware.
C18_WipeAll ==
    [][/\ (Handles("WipeAll") /\ state.tag = "Idle")
          => /\ resp' = Ack("Ok")
             /\ state' = Idle
             /\ boot_sector' = DefaultRecord
             /\ flash_ops' # <<>>
       /\ (Handles("WipeAll") /\ state.tag = "Receiving")
          => /\ resp' = Ack("BadState")
             /\ state' = state
             /\ boot_sector' = boot_sector
             /\ flash_ops' = <<>>
       /\ (BootStep /\ boot_sector = DefaultRecord /\ ~seen'.requested)
          => /\ pc' = "update"
             /\ state' = Idle
             /\ running' = 0
             /\ boot_sector' = boot_sector
             /\ flash_ops' = <<>>]_vars

\* A reset without update trigger entered update mode on the default record
\* while a bank still held an image.
C18_Witness ==
    /\ pc = "update"
    /\ seen = SeenTrigger(FALSE, FALSE)
    /\ boot_sector = DefaultRecord
    /\ running = 0
    /\ VectorTableInRam(flash, FW_A_ADDR)

\* C19 as stated: after a WipeAll acknowledged with Ack(Ok) the flash of bank A
\* and of bank B is erased and the boot data is reset.
C19_BanksErasedAfterWipeAll ==
    (pc = "update" /\ cmd.kind = "WipeAll" /\ resp = Ack("Ok"))
        => /\ \A o \in FlashOffsets : flash[o] = ERASED
           /\ boot_sector = DefaultRecord

\* C20: check_update_trigger reports an update request iff the pin reads low
\* or the RAM sentinel equals RAM_UPDATE_MAGIC, and in every case leaves the
\* sentinel 0; a reset with a request enters update mode, so the reset after
\* reboot_to_bootloader does; only reboot_to_bootloader sets the sentinel, it
\* is 0 whenever the bootloader or the firmware runs, and a reset with the pin
\* high and the sentinel 0 takes the normal boot path.
C20_UpdateTriggerOneShot ==
    [][/\ BootStep
          => /\ seen'.what = "trigger"
             /\ seen'.requested
                    <=> (seen'.gp2_is_low \/ ram_flag = RAM_UPDATE_MAGIC)
             /\ ram_flag' = 0
             /\ seen'.requested
                    => /\ pc' = "update"
                       /\ state' = Idle
                       /\ boot_sector' = boot_sector
                       /\ flash_ops' = <<>>
             /\ (~seen'.gp2_is_low /\ ram_flag = 0)
                    => IF boot_sector = DefaultRecord \/ ~is_valid(boot_sector)
                       THEN pc' = "update" /\ flash_ops' = <<>>
                       ELSE selected' # NoSelection
       /\ (~BootStep /\ ram_flag' # ram_flag)
          => /\ pc = "firmware"
             /\ ram_flag' = RAM_UPDATE_MAGIC
             /\ pc' = "reset"
       /\ pc' # "reset" => ram_flag' = 0]_vars

\* The reset after reboot_to_bootloader entered update mode with the pin high
\* and cleared the sentinel.
C20_Witness ==
    /\ pc = "update"
    /\ seen = SeenTrigger(FALSE, TRUE)
    /\ ram_flag = 0
    /\ state = Idle
    /\ cmd = NoCommand

\* The sector holds no valid magic, or a valid record with both sizes 0.
NoMetadata ==
    \/ boot_sector.magic # BOOT_DATA_MAGIC
    \/ boot_sector.size_a = 0 /\ boot_sector.size_b = 0

\* C21: on the normal boot path a BootData sector without valid magic, or
\* with a valid record whose sizes are both 0, leads to update mode without a
\* write of BootData and without a jump, whatever the banks hold.  A reset
\* writes BootData only by the selection pass, which keeps the magic and the
\* sizes, so the sector found after the reset is the one found before it.
C21_NoMetadataEntersUpdateMode ==
    (seen = SeenTrigger(FALSE, FALSE) /\ NoMetadata)
        => /\ pc = "update"
           /\ state = Idle
           /\ running = 0
           /\ flash_ops = <<>>
           /\ selected = NoSelection

\* A reset without update trigger found an erased sector and a bank with a
\* vector table that would pass validation, and entered update mode.
C21_Witness ==
    /\ seen = SeenTrigger(FALSE, FALSE)
    /\ boot_sector = ErasedBootData
    /\ pc = "update"
    /\ running = 0
    /\ flash_ops = <<>>
    /\ \/ VectorTableInRam(flash, FW_A_ADDR)
       \/ VectorTableInRam(flash, FW_B_ADDR)

\* The frames of a byte stream: the non-empty runs of bytes closed by a
\* delimiter, in stream order.
RECURSIVE FramesOf(_, _)
FramesOf(st, cur) ==
    IF st = <<>> THEN <<>>
    ELSE IF Head(st) = 0
         THEN (IF cur = <<>> THEN <<>> ELSE <<cur>>) \o FramesOf(Tail(st), <<>>)
    ELSE FramesOf(Tail(st), Append(cur, Head(st)))

\* The commands of the frames that decode, in stream order.
RECURSIVE DecodedOf(_)
DecodedOf(frames) ==
    IF frames = <<>> THEN <<>>
    ELSE (IF from_bytes_cobs(Head(frames)).some
          THEN <<from_bytes_cobs(Head(frames)).cmd>>
          ELSE <<>>) \o DecodedOf(Tail(frames))

\* C22 as stated: once the whole stream was read, in reads of any sizes,
\* try_receive has returned Some(cmd) exactly once for every complete frame
\* that decodes, in stream order (frames that fit rx_buf).
C22_EveryFrameReturnedOnce ==
    (/\ usb # NoUsb
     /\ usb.stream = <<>>
     /\ \A i \in 1 .. Len(FramesOf(usb.sent, <<>>)) :
            Len(FramesOf(usb.sent, <<>>)[i]) <= RX_BUF_SIZE)
        => usb.returned = DecodedOf(FramesOf(usb.sent, <<>>))

CobsHardInput(x) ==
    /\ Len(x) > 2
    /\ x[Len(x)] = 0
    /\ \E i \in 1 .. (Len(x) - 1) : x[i] = 0
    /\ \E i \in 1 .. (Len(x) - BYTE_MAX + 2) :
            \A k \in 0 .. (BYTE_MAX - 2) : x[i + k] # 0

\* C24: decode(encode(x)) = x for every byte sequence x, the empty one, those
\* with or ending in 0x00 and those with runs that fill a block included;
\* when the encoding fits the capacity N, encode_heapless produces the bytes
\* encode produces, decode_heapless(encode_heapless(x)) = x, and each decoder
\* decodes the other encoder's output to x.
C24_CobsRoundTrip ==
    (cobs # NoCobs /\ cobs.phase = "decoded")
        => /\ cobs.std_std = SomeBytes(cobs.x)
           /\ Len(cobs.std) <= cobs.N
                => /\ cobs.heapless = cobs.std
                   /\ cobs.heapless_heapless = SomeBytes(cobs.x)
                   /\ cobs.std_heapless = SomeBytes(cobs.x)
                   /\ cobs.heapless_std = SomeBytes(cobs.x)

C24_Witness ==
    /\ cobs # NoCobs
    /\ cobs.phase = "decoded"
    /\ CobsHardInput(cobs.x)
    /\ Len(cobs.std) <= cobs.N
    /\ cobs.std_std = SomeBytes(cobs.x)
    /\ cobs.heapless_heapless = SomeBytes(cobs.x)

\* The byte sequence ends with a 0x00 and holds no other.
OneTrailingZero(e) ==
    /\ e # <<>>
    /\ e[Len(e)] = 0
    /\ \A i \in 1 .. (Len(e) - 1) : e[i] # 0

\* C25: for every byte sequence x, encode(x), and encode_heapless(x) when it
\* fits the capacity, ends with exactly one 0x00 and holds no other 0x00.
C25_CobsNoZeroButDelimiter ==
    (cobs # NoCobs /\ cobs.phase # "input")
        => /\ OneTrailingZero(cobs.std)
           /\ Len(cobs.std) <= cobs.N => OneTrailingZero(cobs.heapless)

C25_Witness ==
    /\ cobs # NoCobs
    /\ cobs.phase = "encoded"
    /\ CobsHardInput(cobs.x)
    /\ Len(cobs.std) <= cobs.N
    /\ OneTrailingZero(cobs.std)
    /\ OneTrailingZero(cobs.heapless)
    /\ Len(cobs.std) > Len(cobs.x) + 2

\* C26: from an erased sector, after any sequence of update-mode commands,
\* selection passes with rollback and confirm_boot calls, every persisted
\* record with valid magic has active_bank in {0, 1}, confirmed in {0, 1},
\* size_a <= FW_BANK_SIZE and size_b <= FW_BANK_SIZE.
C26_BootDataWellFormed ==
    boot_sector.magic = BOOT_DATA_MAGIC
        => /\ boot_sector.active_bank \in {0, 1}
           /\ boot_sector.confirmed \in {0, 1}
           /\ boot_sector.size_a <= FW_BANK_SIZE
           /\ boot_sector.size_b <= FW_BANK_SIZE

\* The firmware of bank B has confirmed its boot while bank A holds an image
\* of the largest size.
C26_Witness ==
    /\ pc = "firmware"
    /\ boot_sector.magic = BOOT_DATA_MAGIC
    /\ boot_sector.active_bank = 1
    /\ boot_sector.confirmed = 1
    /\ boot_sector.size_b > 0
    /\ boot_sector.size_a = FW_BANK_SIZE

\* C27: confirm_boot on a valid record with confirmed = 0 writes the record it
\* read with confirmed = 1 and boot_attempts = 0, every other field kept, and
\* returns true; on a record already confirmed it writes nothing and returns
\* true; on a record without valid magic it writes nothing and returns false.
C27_ConfirmBootFrame ==
    [][(pc = "firmware" /\ pc' = "firmware")
       => IF boot_sector.magic # BOOT_DATA_MAGIC
          THEN /\ seen' = SeenReturn(FALSE)
               /\ flash_ops' = <<>>
               /\ boot_sector' = boot_sector
          ELSE IF boot_sector.confirmed = 1
          THEN /\ seen' = SeenReturn(TRUE)
               /\ flash_ops' = <<>>
               /\ boot_sector' = boot_sector
          ELSE /\ seen' = SeenReturn(TRUE)
               /\ flash_ops' # <<>>
               /\ boot_sector'.confirmed = 1
               /\ boot_sector'.boot_attempts = 0
               /\ \A f \in {"magic", "active_bank", "version_a", "version_b",
                            "crc_a", "crc_b", "size_a", "size_b"} :
                       boot_sector'[f] = boot_sector[f]
          ]_vars

\* confirm_boot has confirmed bank B in a record that holds both banks.
C27_Witness ==
    /\ pc = "firmware"
    /\ seen = SeenReturn(TRUE)
    /\ flash_ops # <<>>
    /\ boot_sector.magic = BOOT_DATA_MAGIC
    /\ boot_sector.confirmed = 1
    /\ boot_sector.boot_attempts = 0
    /\ boot_sector.active_bank = 1
    /\ boot_sector.size_a > 0
    /\ boot_sector.size_b > 0
    /\ boot_sector.version_b = 2

\* The order of a flash operation around the ROM range routine named.
RomOrder(range) ==
    <<"interrupt::disable", "ROM_CONNECT_INTERNAL_FLASH", "ROM_FLASH_EXIT_XIP",
      range, "ROM_FLASH_FLUSH_CACHE", "ROM_FLASH_ENTER_CMD_XIP",
      "interrupt::enable">>

\* C28: every flash erase and flash program performs, in this order: disable
\* interrupts, connect internal flash, exit XIP, the ROM range erase/program,
\* flush cache, re-enter XIP, enable interrupts; whenever XIP is off
\* interrupts are masked, and whenever no flash_erase / flash_program is in
\* progress XIP is on.
C28_FlashOperationSequence ==
    rom # NoRom
        => /\ \E range \in {"ROM_FLASH_RANGE_ERASE", "ROM_FLASH_RANGE_PROGRAM"} :
                    rom.done \o rom.steps \in {<<>>, RomOrder(range)}
           /\ ~rom.xip => ~rom.interrupts
           /\ rom.steps = <<>> => rom.xip /\ rom.interrupts
           /\ (rom.done # <<>> /\ rom.steps # <<>>) => ~rom.interrupts

\* A flash_program after a flash_erase has returned and left data in bank A.
C28_Witness ==
    /\ rom # NoRom
    /\ rom.calls = 2
    /\ rom.steps = <<>>
    /\ rom.done = RomOrder("ROM_FLASH_RANGE_PROGRAM")
    /\ rom.xip
    /\ rom.interrupts
    /\ flash[addr_to_offset(FW_A_ADDR)] # ERASED

\* A step of the update loop that took GetStatus.
GetStatusStep == pc = "update" /\ pc' = "update" /\ cmd' = CmdGetStatus

\* C29: GetStatus changes neither the FSM state, the flash banks nor BootData
\* and issues no flash operation; it answers Status with state UpdateMode
\* exactly when the FSM is Idle and Receiving exactly when it is Receiving,
\* and active_bank, version_a, version_b of the persisted record, or 0 each
\* when the sector has no valid magic.
C29_GetStatusReadOnly ==
    [][GetStatusStep =>
        /\ state' = state
        /\ flash' = flash
        /\ boot_sector' = boot_sector
        /\ flash_ops' = <<>>
        /\ resp'.type = "Status"
        /\ resp'.state \in {"UpdateMode", "Receiving"}
        /\ resp'.state = "UpdateMode" <=> state.tag = "Idle"
        /\ resp'.state = "Receiving" <=> state.tag = "Receiving"
        /\ IF boot_sector.magic = BOOT_DATA_MAGIC
           THEN /\ resp'.active_bank = boot_sector.active_bank
                /\ resp'.version_a = boot_sector.version_a
                /\ resp'.version_b = boot_sector.version_b
           ELSE /\ resp'.active_bank = 0
                /\ resp'.version_a = 0
                /\ resp'.version_b = 0]_vars

\* GetStatus answered during a transfer into bank A, with a record on flash
\* that names bank B active and carries a version for it.
C29_Witness ==
    /\ pc = "update"
    /\ cmd = CmdGetStatus
    /\ state.tag = "Receiving"
    /\ state.bank = 0
    /\ state.bytes_received > 0
    /\ resp.type = "Status"
    /\ resp.state = "Receiving"
    /\ is_valid(boot_sector)
    /\ resp.active_bank = 1
    /\ resp.version_b > 0

\* The bank passes validate_bank_with_crc against the persisted record.
BankCrcValid(bank) ==
    LET meta == bank_metadata(read_boot_data, bank) IN
    validate_bank_with_crc(flash, BankAddr(bank), meta[1], meta[2])

\* C30: an image whose FinishUpdate was answered Ack(CrcError), or whose
\* upload a reset ended before a successful FinishUpdate, is not jumped to by
\* the boot that follows: the boot selects the other bank or enters update
\* mode.  Stated for the images that are not the one BootData records for
\* their bank (a session that rewrote the bytes of the committed image leaves
\* a bank that still passes its CRC).
C30_UnverifiedImageNotBooted ==
    [][(/\ pc = "reset"
        /\ seen.what = "unverified"
        /\ ~BankCrcValid(seen.bank)
        /\ pc' = "firmware")
            => running' # BankAddr(seen.bank)]_vars

\* A post-state of an accepted DataBlock: the session and the program call.
AcceptedDataBlock ==
    /\ pc = "update"
    /\ cmd.kind = "DataBlock"
    /\ resp = Ack("Ok")
    /\ state.tag = "Receiving"

\* C31: the range programmed by an accepted DataBlock, padding included, lies
\* inside the range erased by the session's StartUpdate and inside the target
\* bank.
C31_ProgramInsideErasedRange ==
    AcceptedDataBlock =>
        LET op == flash_ops[1]
            base == addr_to_offset(state.bank_addr)
            erase_size == div_ceil(state.expected_size, FLASH_SECTOR_SIZE)
                            * FLASH_SECTOR_SIZE
        IN  /\ Len(flash_ops) = 1
            /\ op.op = "program"
            /\ base <= op.offset
            /\ op.offset + op.len <= base + erase_size
            /\ op.offset + op.len <= base + FW_BANK_SIZE

\* C32: the program call of an accepted DataBlock has a length and a flash
\* offset that are multiples of the page size.
C32_ProgramPageAligned ==
    AcceptedDataBlock =>
        /\ flash_ops[1].op = "program"
        /\ flash_ops[1].len % FLASH_PAGE_SIZE = 0
        /\ flash_ops[1].offset % FLASH_PAGE_SIZE = 0

\* C33: a selection pass that returns a record whose active_bank differs from
\* the one of the record it read (through rollback or through either fallback
\* strategy) returns confirmed = 0 and boot_attempts = 1.
C33_SwitchedBankUnconfirmed ==
    (/\ selected # NoSelection
     /\ pc # "panic"
     /\ boot_sector.active_bank # selected.active_bank)
        => /\ boot_sector.confirmed = 0
           /\ boot_sector.boot_attempts = 1

\* The validation outcomes of a BankPair as select_boot_bank evaluates them.
ValidationsOf(banks) ==
    [primary_crc |-> banks.primary_validation.crc_valid,
     fallback_crc |-> banks.fallback_validation.crc_valid,
     primary_basic |-> banks.primary_validation.basic_valid,
     fallback_basic |-> banks.fallback_validation.basic_valid]

\* C34: for every BootData and every validation outcome of the two banks,
\* select_boot_bank and select_boot_bank_fsm (on the BankPair of the
\* post-rollback active bank) followed by apply_to yield the same flash
\* address, active_bank, boot_attempts and confirmed.
C34_SelectionsAgree ==
    (/\ fsm # NoFsm
     /\ fsm.decision # NoDecision
     /\ fsm.decision # Panicked
     /\ fsm.banks.primary.bank_id = rollback(fsm.bd).active_bank)
        => LET sel == select_cascade(rollback(fsm.bd), ValidationsOf(fsm.banks))
               via_fsm == apply_to(fsm.decision, fsm.bd)
           IN  /\ sel.flash_addr = fsm.decision.flash_addr
               /\ sel.bd.active_bank = via_fsm.active_bank
               /\ sel.bd.boot_attempts = via_fsm.boot_attempts
               /\ sel.bd.confirmed = via_fsm.confirmed

\* C35: over any number of consecutive normal boots, every increment
\* boot_attempts + 1 of a selection pass is applied to a value below 255: no
\* pass overflows the 8-bit counter, a confirmed bank's included.
C35_BootAttemptsNeverOverflow ==
    selected # NoSelection =>
        /\ ~select_boot_bank(selected, flash).overflow
        /\ pc # "panic"

\* C36 as stated, its consequence: once a session has been started in a run
\* of update mode, no new upload starts before the device is reset; here for
\* the StartUpdate that follows the session's FinishUpdate.
C36_Original ==
    [][(/\ pc = "update"
        /\ cmd.kind = "FinishUpdate"
        /\ resp \in {Ack("Ok"), Ack("CrcError")}
        /\ pc' = "update"
        /\ cmd'.kind = "StartUpdate")
            => resp' # Ack("Ok")]_vars

\* C36, amended: update mode is entered in Idle.  A session in Receiving ends only by
\* a FinishUpdate received with bytes_received = expected_size or by a reset:
\* StartUpdate, SetActiveBank and WipeAll are answered Ack(BadState) and
\* change nothing, and every other command that does not end the session
\* keeps its bank, size, CRC and version.
C36_ReceivingEndsByFinishOrReset ==
    [][/\ (pc # "update" /\ pc' = "update") => state' = Idle
       /\ (pc = "update" /\ state.tag = "Receiving") =>
            /\ (pc' = "update"
                /\ cmd'.kind \in {"StartUpdate", "SetActiveBank", "WipeAll"})
                    => /\ resp' = Ack("BadState")
                       /\ state' = state
                       /\ flash' = flash
                       /\ boot_sector' = boot_sector
            /\ state'.tag # "Receiving"
                    => \/ pc' = "reset"
                       \/ /\ cmd'.kind = "FinishUpdate"
                          /\ state.bytes_received = state.expected_size
            /\ state'.tag = "Receiving"
                    => /\ pc' = "update"
                       /\ [state' EXCEPT !.bytes_received = state.bytes_received]
                            = state]_vars

\* A StartUpdate refused in a session that has received data.
C36_Witness ==
    /\ pc = "update"
    /\ state.tag = "Receiving"
    /\ state.bytes_received > 0
    /\ cmd.kind = "StartUpdate"
    /\ cmd.bank # state.bank
    /\ resp = Ack("BadState")

\* C37: in every Receiving state 0 < expected_size <= FW_BANK_SIZE and
\* bytes_received <= expected_size; a DataBlock whose data would take
\* bytes_received past expected_size is answered Ack(BadCommand), programs
\* nothing and leaves the session as it was.
C37_ReceivedWithinExpected ==
    [][/\ state'.tag = "Receiving"
            => /\ 0 < state'.expected_size
               /\ state'.expected_size <= FW_BANK_SIZE
               /\ state'.bytes_received <= state'.expected_size
       /\ (/\ pc = "update"
           /\ state.tag = "Receiving"
           /\ pc' = "update"
           /\ cmd'.kind = "DataBlock"
           /\ state.bytes_received + cmd'.len > state.expected_size)
            => /\ resp' = Ack("BadCommand")
               /\ flash_ops' = <<>>
               /\ flash' = flash
               /\ state' = state]_vars

\* A DataBlock at the right offset refused because it runs past the size
\* announced, in a session that has received data.
C37_Witness ==
    /\ pc = "update"
    /\ state.tag = "Receiving"
    /\ state.bytes_received > 0
    /\ cmd.kind = "DataBlock"
    /\ cmd.offset = state.bytes_received
    /\ state.bytes_received + cmd.len > state.expected_size
    /\ resp = Ack("BadCommand")
    /\ flash_ops = <<>>

\* The position of the first delimiter of a byte stream, Len + 1 if none.
RECURSIVE FirstDelimiter(_, _)
FirstDelimiter(st, i) ==
    IF i > Len(st) \/ st[i] = 0 THEN i ELSE FirstDelimiter(st, i + 1)

\* C38: when more than RX_BUF_SIZE non-delimiter bytes arrive without a
\* delimiter, no Command is delivered from any part of that frame.  Stated
\* for the streams that are one oversized frame and its closing delimiter.
C38_OversizedFrameDiscarded ==
    (/\ usb # NoUsb
     /\ Len(usb.sent) > RX_BUF_SIZE + 1
     /\ FirstDelimiter(usb.sent, 1) = Len(usb.sent))
        => usb.returned = <<>>

\* C39: every call of send returns after finitely many steps, also when the
\* host never drains the endpoint and every write reports WouldBlock.
C39_SendTerminates == <>(usb # NoUsb /\ usb.returned)

\* The statements of a hand-off, in the order of the executor.
HandoffOrder ==
    <<"write_boot_data", "validate_bank", "copy_firmware_to_ram",
      "interrupt::disable", "NVIC_ICPR", "NVIC_ICER", "interrupt::disable",
      "SCB_VTOR", "VectorTable::read_from", "msr msp", "cpsie i", "bx">>

\* The statement has been executed.
Done(stmt) == \E i \in 1 .. Len(rom.done) : rom.done[i] = stmt

\* C40: on a normal boot that hands off to firmware the record of the pass
\* is on flash before the image is copied to RAM; then, in this order: the
\* copy, interrupts masked and all NVIC pending and enable bits cleared, VTOR
\* set to the RAM base, initial SP and reset vector read from the RAM copy,
\* the main stack pointer set, interrupts re-enabled, the branch to the reset
\* vector; nothing is written or executed after the branch.
C40_HandoffOrder ==
    (rom # NoRom /\ rom.sel # NoSelection) =>
        /\ rom.done = SubSeq(HandoffOrder, 1, Len(rom.done))
        /\ Done("copy_firmware_to_ram")
            => /\ boot_sector = rom.sel.bd
               /\ rom.ram = flash_read(flash, rom.sel.flash_addr, FW_BANK_SIZE)
        /\ Done("NVIC_ICER")
            => /\ rom.nvic_pending = 0
               /\ rom.nvic_enable = 0
               /\ Done("copy_firmware_to_ram")
        /\ (Done("NVIC_ICPR") /\ ~Done("cpsie i")) => ~rom.interrupts
        /\ Done("SCB_VTOR") => rom.vtor = FW_RAM_START /\ Done("NVIC_ICER")
        /\ Done("VectorTable::read_from")
            => rom.vt = SubSeq(rom.ram, 1, 2) /\ Done("SCB_VTOR")
        /\ Done("msr msp") => rom.msp = rom.ram[1]
        /\ Done("cpsie i") => rom.interrupts /\ Done("msr msp")
        /\ pc = "firmware"
            <=> (Done("bx") /\ rom.done = HandoffOrder /\ rom.steps = <<>>)
        /\ pc = "firmware"
            => /\ rom.branch = rom.ram[2]
               /\ running = rom.sel.flash_addr
               /\ boot_sector = rom.sel.bd
               /\ flash_ops
                    = <<EraseOp(addr_to_offset(BOOT_DATA_ADDR), FLASH_SECTOR_SIZE),
                        ProgramOp(addr_to_offset(BOOT_DATA_ADDR), FLASH_PAGE_SIZE)>>
               /\ ~ENABLED NextHandoff
        /\ pc = "update" => ~Done("copy_firmware_to_ram") /\ rom.steps = <<>>

\* The branch into the image of bank B, with interrupts that were pending and
\* enabled at entry cleared.
C40_Witness ==
    /\ rom # NoRom
    /\ rom.sel # NoSelection
    /\ pc = "firmware"
    /\ running = FW_B_ADDR
    /\ rom.done = HandoffOrder
    /\ rom.interrupts
    /\ rom.nvic_pending = 0
    /\ rom.msp = flash[addr_to_offset(FW_B_ADDR)]
    /\ boot_sector.boot_attempts = 1

====
